---- MODULE Spec2Model ----
(***************************************************************************)
(* Fraud-case extraction and consolidation pipeline (vinchinzu/companies). *)
(*                                                                         *)
(* Python strings are modelled as sequences of one-character strings so    *)
(* that lower(), strip(), replace() and substring tests are computed, not  *)
(* assumed.  Optional values are None == <<>> or Some(x) == <<x>>.         *)
(***************************************************************************)
EXTENDS Integers, Sequences, FiniteSets, TLC

VARIABLES
    cases,        \* deduplicate_cases: the input list
    unique,       \* deduplicate_cases(cases)
    uniqueTwice,  \* deduplicate_cases(cases + cases)
    uniqueAgain,  \* deduplicate_cases(deduplicate_cases(cases))
    extracted,    \* the ExtractedCase handed to a record builder
    built,        \* the builder that ran and the records it returned
    amount_str,   \* the argument of _parse_dollar_amount
    parsed,       \* what _parse_dollar_amount returned
    db,           \* data/fraudulent_companies.csv: None, or Some(rows)
    today,        \* the wall clock: the index in Days of the current day
    mainPc,       \* combine_all_sources.main: the step reached
    all_cases,    \* combine_all_sources.main: the list all_cases
    sources,      \* the PDFs on disk and the OFAC feed given to a rebuild
    tables,       \* the table each of two independent rebuilds wrote
    jur_in,       \* the argument of _normalize_jurisdiction
    jur_code,     \* what _normalize_jurisdiction returned
    indicators,   \* the argument of _classify_fraud_type
    classified,   \* what _classify_fraud_type returned
    pdf_text,     \* the text of a complaint PDF
    matches,      \* what _extract_pattern returned, and for which key
    ecase,        \* the ExtractedCase extract_case returned
    batch,        \* a batch of PDFs being converted: the loop's state
    writer,       \* df.to_csv(output_path) in progress: its state
    runs,         \* two updates of the table running at once
    removed,      \* main: the number of duplicates it reported last
    api           \* APIClient._make_request: the call in progress

dedupVars == <<cases, unique, uniqueTwice, uniqueAgain>>
buildVars == <<extracted, built>>
parseVars == <<amount_str, parsed>>
dbVars == <<db, today, mainPc, all_cases>>
runVars == <<sources, tables>>
normVars == <<jur_in, jur_code>>
classVars == <<indicators, classified>>
textVars == <<pdf_text, matches, ecase>>
extractVars == <<normVars, classVars, textVars>>
batchVars == <<batch>>
saveVars == <<writer>>
raceVars == <<runs>>
reportVars == <<removed>>
apiVars == <<api>>
otherVars == <<batchVars, saveVars, raceVars, reportVars, apiVars>>
exceptBatch == <<saveVars, raceVars, reportVars, apiVars>>
exceptSave == <<batchVars, raceVars, reportVars, apiVars>>
exceptRace == <<batchVars, saveVars, reportVars, apiVars>>
exceptReport == <<batchVars, saveVars, raceVars, apiVars>>
exceptApi == <<batchVars, saveVars, raceVars, reportVars>>
vars == <<cases, unique, uniqueTwice, uniqueAgain, extracted, built,
          amount_str, parsed, db, today, mainPc, all_cases, sources, tables,
          jur_in, jur_code, indicators, classified, pdf_text, matches, ecase,
          batch, writer, runs, removed, api>>

None == <<>>
Some(x) == <<x>>

DedupIdle ==
    /\ cases = <<>> /\ unique = None /\ uniqueTwice = None /\ uniqueAgain = None

BuildIdle == extracted = None /\ built = None

ParseIdle == amount_str = None /\ parsed = None

DbIdle == db = None /\ today = 1 /\ mainPc = "idle" /\ all_cases = <<>>

RunsIdle == sources = None /\ tables = None

NormIdle == jur_in = None /\ jur_code = None

ClassIdle == indicators = None /\ classified = None

TextIdle == pdf_text = None /\ matches = None /\ ecase = None

ExtractIdle == NormIdle /\ ClassIdle /\ TextIdle

BatchIdle == batch = None

SaveIdle == writer = None

RaceIdle == runs = None

ReportIdle == removed = None

ApiIdle == api = None

OtherIdle == BatchIdle /\ SaveIdle /\ RaceIdle /\ ReportIdle /\ ApiIdle

\* x or d, for an Optional[str] x: None and "" are falsy
OrElse(x, d) == IF x = None \/ x = Some("") THEN d ELSE x[1]

\* a Python float: a finite value kept exactly as m * 10^e with m not a
\* multiple of 10 (0 is Dec(0, 0)), or nan, or an infinity
Dec(m, e) == [kind |-> "finite", m |-> m, e |-> e]
NaN == [kind |-> "nan", m |-> 0, e |-> 0]
Inf(sign) == [kind |-> "inf", m |-> sign, e |-> 0]

(***************************************************************************)
(* str.lower() and str.strip()                                             *)
(***************************************************************************)
LowerChar(c) ==
    CASE c = "A" -> "a" [] c = "B" -> "b" [] c = "C" -> "c" [] c = "D" -> "d"
      [] c = "E" -> "e" [] c = "F" -> "f" [] c = "G" -> "g" [] c = "H" -> "h"
      [] c = "I" -> "i" [] c = "J" -> "j" [] c = "K" -> "k" [] c = "L" -> "l"
      [] c = "M" -> "m" [] c = "N" -> "n" [] c = "O" -> "o" [] c = "P" -> "p"
      [] c = "Q" -> "q" [] c = "R" -> "r" [] c = "S" -> "s" [] c = "T" -> "t"
      [] c = "U" -> "u" [] c = "V" -> "v" [] c = "W" -> "w" [] c = "X" -> "x"
      [] c = "Y" -> "y" [] c = "Z" -> "z" [] OTHER -> c

Lower(s) == [i \in 1..Len(s) |-> LowerChar(s[i])]

IsSpace(c) == c \in {" ", "\t", "\n"}

RECURSIVE LStrip(_)
LStrip(s) == IF s # <<>> /\ IsSpace(Head(s)) THEN LStrip(Tail(s)) ELSE s

RECURSIVE RStrip(_)
RStrip(s) ==
    IF s # <<>> /\ IsSpace(s[Len(s)]) THEN RStrip(SubSeq(s, 1, Len(s) - 1)) ELSE s

Strip(s) == RStrip(LStrip(s))

(***************************************************************************)
(* combine_all_sources.deduplicate_cases                                   *)
(***************************************************************************)
NameLowerNoStrip(name) == Lower(name)

\* name_lower = case['company_name'].lower().strip()
NameLower(name) == Strip(Lower(name))

RECURSIVE DedupLoopLastWins(_, _, _, _)
DedupLoopLastWins(cs, i, seen, out) ==
    IF i > Len(cs) THEN out
    ELSE LET key == NameLower(cs[i].company_name) IN
         IF key \notin seen
         THEN DedupLoopLastWins(cs, i + 1, seen \cup {key}, Append(out, cs[i]))
         ELSE DedupLoopLastWins(cs, i + 1, seen,
                  [j \in 1..Len(out) |->
                      IF NameLower(out[j].company_name) = key
                      THEN cs[i] ELSE out[j]])

RECURSIVE DedupLoopForgetful(_, _, _, _)
DedupLoopForgetful(cs, i, seen, out) ==
    IF i > Len(cs) THEN out
    ELSE LET key == NameLower(cs[i].company_name) IN
         IF key \notin seen
         THEN DedupLoopForgetful(cs, i + 1, {key}, Append(out, cs[i]))
         ELSE DedupLoopForgetful(cs, i + 1, seen, out)

\* the for loop of deduplicate_cases: seen is the set of keys, unique the output list
RECURSIVE DedupLoop(_, _, _, _)
DedupLoop(cs, i, seen, out) ==
    IF i > Len(cs) THEN out
    ELSE LET key == NameLower(cs[i].company_name) IN
         IF key \notin seen
         THEN DedupLoop(cs, i + 1, seen \cup {key}, Append(out, cs[i]))
         ELSE DedupLoop(cs, i + 1, seen, out)

DeduplicateCases(cs) == DedupLoop(cs, 1, {}, <<>>)

(***************************************************************************)
(* Input records for the merge                                             *)
(***************************************************************************)
AcmeCapitalLLC == <<"A","c","m","e"," ","C","a","p","i","t","a","l"," ","L","L","C">>
AcmeLowerTrail == <<"a","c","m","e"," ","c","a","p","i","t","a","l"," ","l","l","c"," ">>
AcmeUpperLead == <<" ","A","C","M","E"," ","C","A","P","I","T","A","L"," ","L","L","C">>
AcmeCapitalInc == <<"A","c","m","e"," ","C","a","p","i","t","a","l"," ","I","n","c",".">>
HyperFund == <<"H","y","p","e","r","F","u","n","d">>
HyperFundLower == <<"h","y","p","e","r","f","u","n","d">>

MergeNames == {AcmeCapitalLLC, AcmeLowerTrail, AcmeUpperLead, AcmeCapitalInc, HyperFund}

Rec(name, date, ftype, penalty, jur, source, url, casenum) ==
    [company_name |-> name, case_date |-> date, fraud_type |-> ftype,
     penalty_amount |-> penalty, jurisdiction |-> jur, source |-> source,
     source_url |-> url, is_synthetic |-> FALSE, case_number |-> casenum]

SourceARec(name) ==
    Rec(name, "2024-01-01", "Ponzi Scheme", None, Some("us"), "A", "", None)
SourceBRec(name) ==
    Rec(name, "2024-06-01", "Securities Fraud", None, Some("us"), "B", "", None)

MergePool == {SourceARec(n) : n \in MergeNames} \cup {SourceBRec(n) : n \in MergeNames}

MaxBatch == 3

RECURSIVE SeqsUpTo(_, _)
SeqsUpTo(S, n) ==
    IF n = 0 THEN {<<>>}
    ELSE LET shorter == SeqsUpTo(S, n - 1) IN
         shorter \cup {Append(s, x) : s \in {t \in shorter : Len(t) = n - 1}, x \in S}

InitDedup ==
    /\ cases \in SeqsUpTo(MergePool, MaxBatch)
    /\ unique = None
    /\ uniqueTwice = None
    /\ uniqueAgain = None
    /\ BuildIdle
    /\ ParseIdle
    /\ DbIdle
    /\ RunsIdle
    /\ OtherIdle
    /\ ExtractIdle

\* unique = deduplicate_cases(cases)
MergeOnce ==
    /\ unique = None
    /\ unique' = Some(DeduplicateCases(cases))
    /\ UNCHANGED <<cases, uniqueTwice, uniqueAgain, buildVars, parseVars, dbVars, runVars, extractVars, otherVars>>

\* the same batch fed twice: deduplicate_cases(cases + cases)
MergeTwice ==
    /\ uniqueTwice = None
    /\ uniqueTwice' = Some(DeduplicateCases(cases \o cases))
    /\ UNCHANGED <<cases, unique, uniqueAgain, buildVars, parseVars, dbVars, runVars, extractVars, otherVars>>

\* the output fed back: deduplicate_cases(deduplicate_cases(cases))
MergeAgain ==
    /\ unique # None
    /\ uniqueAgain = None
    /\ uniqueAgain' = Some(DeduplicateCases(unique[1]))
    /\ UNCHANGED <<cases, unique, uniqueTwice, buildVars, parseVars, dbVars, runVars, extractVars, otherVars>>

NextDedup == MergeOnce \/ MergeTwice \/ MergeAgain

SpecDedup == InitDedup /\ [][NextDedup]_vars

(***************************************************************************)
(* Record builders: ExtractedCase.to_fraud_cases,                          *)
(* extract_all_pdfs.extract_to_fraud_cases and the loop body of            *)
(* combine_all_sources.extract_from_pdfs                                   *)
(***************************************************************************)
Entity(name, etype, role, jur) ==
    [name |-> name, entity_type |-> etype, role |-> role, jurisdiction |-> jur]

\* datetime.now().strftime('%Y-%m-%d'): the days a run can read, in order
Days == <<"2026-10-31", "2026-11-01">>

\* the readings of the clock taken by n successive calls: never decreasing
ClockReadings(n) ==
    {c \in [1..n -> 1..Len(Days)] : \A i \in 1..n, j \in 1..n : i < j => c[i] <= c[j]}

RECURSIVE ToFraudCasesLoop(_, _, _, _)
ToFraudCasesLoop(self, clock, i, out) ==
    IF i > Len(self.defendants) THEN out
    ELSE LET defendant == self.defendants[i] IN
         IF defendant.entity_type = "company"
         THEN ToFraudCasesLoop(self, clock, i + 1, Append(out,
                  Rec(defendant.name,
                      OrElse(self.complaint_date, Days[clock[i]]),
                      IF self.fraud_types # <<>> THEN self.fraud_types[1]
                                                 ELSE "Securities Fraud",
                      self.alleged_amount,
                      defendant.jurisdiction,
                      "SEC Complaint",
                      OrElse(self.source_url, ""),
                      self.case_number)))
         ELSE ToFraudCasesLoop(self, clock, i + 1, out)

\* ExtractedCase.to_fraud_cases; clock[i] is the day datetime.now() returns
\* while the i-th defendant is converted
ToFraudCases(self, clock) == ToFraudCasesLoop(self, clock, 1, <<>>)

FileUrl(pdf_path) == "file:///abs/" \o pdf_path

CompanyRecords(entities, case_date, fraud_type, penalty, url, case_number) ==
    LET companies == SelectSeq(entities, LAMBDA d : d.entity_type = "company") IN
    [i \in 1..Len(companies) |->
        Rec(companies[i].name, case_date, fraud_type, penalty,
            Some(OrElse(companies[i].jurisdiction, "")),
            "SEC Complaint PDF", url, case_number)]

ExtractToFraudCasesReliefPenalized(ex, pdf_path, now) ==
    LET case_date == OrElse(ex.complaint_date, now)
        fraud_types == IF ex.fraud_types # <<>> THEN ex.fraud_types
                                                ELSE <<"SEC Enforcement">>
        url == OrElse(ex.source_url, FileUrl(pdf_path))
    IN  CompanyRecords(ex.defendants, case_date, fraud_types[1],
                       ex.alleged_amount, url, ex.case_number)
        \o CompanyRecords(ex.relief_defendants, case_date, fraud_types[1],
                          ex.alleged_amount, url, ex.case_number)

\* extract_all_pdfs.extract_to_fraud_cases, after extract_case returned ex
ExtractToFraudCases(ex, pdf_path, now) ==
    LET case_date == OrElse(ex.complaint_date, now)
        fraud_types == IF ex.fraud_types # <<>> THEN ex.fraud_types
                                                ELSE <<"SEC Enforcement">>
        url == OrElse(ex.source_url, FileUrl(pdf_path))
    IN  CompanyRecords(ex.defendants, case_date, fraud_types[1],
                       ex.alleged_amount, url, ex.case_number)
        \o CompanyRecords(ex.relief_defendants, case_date, fraud_types[1],
                          None, url, ex.case_number)

\* combine_all_sources.extract_from_pdfs, the body of the loop for one PDF
CombineCasesOfPdf(ex, now) ==
    CompanyRecords(ex.defendants,
                   OrElse(ex.complaint_date, now),
                   IF ex.fraud_types # <<>> THEN ex.fraud_types[1]
                                            ELSE "SEC Enforcement",
                   ex.alleged_amount,
                   OrElse(ex.source_url, ""),
                   ex.case_number)

XHoldings == <<"X"," ","H","o","l","d","i","n","g","s"," ","C","o","r","p",".">>
DoKwon == <<"D","o"," ","K","w","o","n">>
ReliefCo == <<"R","e","l","i","e","f"," ","L","L","C">>

\* entities as the repository builds them: extract_case gives every entity the
\* role "defendant"; KNOWN_SEC_CASES also lists a related_entity under defendants
DefendantPool ==
    {Entity(HyperFund, "company", "defendant", Some("us_de")),
     Entity(AcmeCapitalLLC, "company", "defendant", None),
     Entity(XHoldings, "company", "related_entity", Some("us_de")),
     Entity(DoKwon, "individual", "defendant", None)}

ReliefPool ==
    {Entity(ReliefCo, "company", "relief_defendant", Some("vg")),
     Entity(DoKwon, "individual", "relief_defendant", None)}

MaxDefendants == 2
MaxRelief == 1

CasePool ==
    [case_number : {None, Some("1:25-cv-00219")},
     complaint_date : {None, Some("2025-01-14")},
     defendants : SeqsUpTo(DefendantPool, MaxDefendants),
     relief_defendants : SeqsUpTo(ReliefPool, MaxRelief),
     fraud_types : {<<>>, <<"Securities Fraud">>, <<"Ponzi Scheme", "Securities Fraud">>},
     alleged_amount : {None, Some(Dec(5, 7))},
     source_url : {None, Some("https://www.sec.gov/comp26219.pdf")}]

PdfPath == "data/pdfs/comp26219.pdf"

InitBuild ==
    /\ extracted \in {Some(c) : c \in CasePool}
    /\ built = None
    /\ DedupIdle
    /\ ParseIdle
    /\ DbIdle
    /\ RunsIdle
    /\ OtherIdle
    /\ ExtractIdle

CallToFraudCases ==
    /\ built = None
    /\ \E clock \in ClockReadings(Len(extracted[1].defendants)) :
          built' = Some([builder |-> "to_fraud_cases",
                         records |-> ToFraudCases(extracted[1], clock)])
    /\ UNCHANGED <<extracted, dedupVars, parseVars, dbVars, runVars, extractVars, otherVars>>

CallExtractToFraudCases ==
    /\ built = None
    /\ \E d \in 1..Len(Days) :
          built' = Some([builder |-> "extract_to_fraud_cases",
                         records |-> ExtractToFraudCases(extracted[1], PdfPath, Days[d])])
    /\ UNCHANGED <<extracted, dedupVars, parseVars, dbVars, runVars, extractVars, otherVars>>

CallCombineCasesOfPdf ==
    /\ built = None
    /\ \E d \in 1..Len(Days) :
          built' = Some([builder |-> "extract_from_pdfs",
                         records |-> CombineCasesOfPdf(extracted[1], Days[d])])
    /\ UNCHANGED <<extracted, dedupVars, parseVars, dbVars, runVars, extractVars, otherVars>>

NextBuild == CallToFraudCases \/ CallExtractToFraudCases \/ CallCombineCasesOfPdf

SpecBuild == InitBuild /\ [][NextBuild]_vars

(***************************************************************************)
(* PDFExtractor._parse_dollar_amount                                       *)
(***************************************************************************)
\* sub in s
Contains(s, sub) ==
    \E i \in 0..(Len(s) - Len(sub)) : SubSeq(s, i + 1, i + Len(sub)) = sub

\* s.replace(c, "") for a one-character c
Remove(s, c) == SelectSeq(s, LAMBDA x : x # c)

DigitChars == {"0", "1", "2", "3", "4", "5", "6", "7", "8", "9"}

DigitVal(c) ==
    CASE c = "0" -> 0 [] c = "1" -> 1 [] c = "2" -> 2 [] c = "3" -> 3
      [] c = "4" -> 4 [] c = "5" -> 5 [] c = "6" -> 6 [] c = "7" -> 7
      [] c = "8" -> 8 [] c = "9" -> 9

\* digit (["_"] digit)*
IsDigitPart(s) ==
    /\ s # <<>>
    /\ \A i \in 1..Len(s) : s[i] \in DigitChars \cup {"_"}
    /\ s[1] # "_" /\ s[Len(s)] # "_"
    /\ \A i \in 1..(Len(s) - 1) : ~(s[i] = "_" /\ s[i + 1] = "_")

RECURSIVE DigitsToInt(_)
DigitsToInt(ds) ==
    IF ds = <<>> THEN 0
    ELSE 10 * DigitsToInt(SubSeq(ds, 1, Len(ds) - 1)) + DigitVal(ds[Len(ds)])

RECURSIVE DropLeadingZeros(_)
DropLeadingZeros(ds) ==
    IF ds # <<>> /\ ds[1] = "0" THEN DropLeadingZeros(Tail(ds)) ELSE ds

RECURSIVE TrailingZeros(_)
TrailingZeros(ds) ==
    IF ds # <<>> /\ ds[Len(ds)] = "0"
    THEN 1 + TrailingZeros(SubSeq(ds, 1, Len(ds) - 1)) ELSE 0

\* the value of the digit string ds scaled by 10^e
DecOfDigits(ds, e) ==
    LET sig == DropLeadingZeros(ds)
        z == TrailingZeros(sig)
    IN  IF sig = <<>> THEN Dec(0, 0)
        ELSE Dec(DigitsToInt(SubSeq(sig, 1, Len(sig) - z)), e + z)

FirstIndex(s, cs) ==
    IF \E i \in 1..Len(s) : s[i] \in cs
    THEN CHOOSE i \in 1..Len(s) : s[i] \in cs /\ \A j \in 1..(i - 1) : s[j] \notin cs
    ELSE 0

Unsigned(s) == IF s # <<>> /\ s[1] \in {"+", "-"} THEN Tail(s) ELSE s

Negated(v, s) ==
    IF s # <<>> /\ s[1] = "-" /\ v.kind # "nan" THEN [v EXCEPT !.m = 0 - v.m] ELSE v

\* float(text): None stands for ValueError.  The grammar is
\* [sign] (inf | infinity | nan | digits [. [digits]] [e [sign] digits] | . digits ...)
\* with surrounding whitespace ignored.
PyFloat(text) ==
    LET s == Strip(text)
        body == Unsigned(s)
        low == Lower(body)
        ePos == FirstIndex(body, {"e", "E"})
        mant == IF ePos = 0 THEN body ELSE SubSeq(body, 1, ePos - 1)
        expo == IF ePos = 0 THEN <<>> ELSE SubSeq(body, ePos + 1, Len(body))
        expDigits == Unsigned(expo)
        dot == FirstIndex(mant, {"."})
        intPart == IF dot = 0 THEN mant ELSE SubSeq(mant, 1, dot - 1)
        fracPart == IF dot = 0 THEN <<>> ELSE SubSeq(mant, dot + 1, Len(mant))
        intDigits == Remove(intPart, "_")
        fracDigits == Remove(fracPart, "_")
        expVal == IF ePos = 0 THEN 0
                  ELSE IF expo[1] = "-" THEN 0 - DigitsToInt(Remove(expDigits, "_"))
                  ELSE DigitsToInt(Remove(expDigits, "_"))
        wellFormed ==
            /\ intPart = <<>> \/ IsDigitPart(intPart)
            /\ fracPart = <<>> \/ IsDigitPart(fracPart)
            /\ intPart # <<>> \/ fracPart # <<>>
            /\ ePos # 0 => IsDigitPart(expDigits)
    IN  IF low \in {<<"i","n","f">>, <<"i","n","f","i","n","i","t","y">>}
        THEN Some(Negated(Inf(1), s))
        ELSE IF low = <<"n","a","n">> THEN Some(NaN)
        ELSE IF wellFormed
        THEN Some(Negated(DecOfDigits(intDigits \o fracDigits,
                                      expVal - Len(fracDigits)), s))
        ELSE None

\* value *= 10^k
Times10(v, k) ==
    IF v.kind = "finite" /\ v.m # 0 THEN [v EXCEPT !.e = v.e + k] ELSE v

Million == <<"m","i","l","l","i","o","n">>
Billion == <<"b","i","l","l","i","o","n">>

\* _parse_dollar_amount(amount_str); None is the Python None
ParseDollarAmount(str) ==
    IF str = <<>> THEN None
    ELSE LET clean == Strip(Remove(Remove(str, ","), "$"))
             value == PyFloat(clean)
             lower == Lower(str)
         IN  IF value = None THEN None
             ELSE IF Contains(lower, Billion) THEN Some(Times10(value[1], 9))
             ELSE IF Contains(lower, Million) THEN Some(Times10(value[1], 6))
             ELSE value

\* amount strings: prefix, numeric literal, suffix
AmountPrefixes == {<<>>, <<"$">>, <<" ","$">>}
AmountLiterals ==
    {<<"4",".","5">>, <<"1",",","7","0","0",",","0","0","0",",","0","0","0">>, <<"5","0",",","0","0","0">>, <<"4">>,
     <<"1","0",",","0","0","0">>, <<"0",".","5","0">>, <<"1","e","3">>}
AmountNonLiterals ==
    {<<>>, <<"n","a","n">>, <<"n","o","t"," ","a"," ","n","u","m","b","e","r">>, <<"1",".","2",".","3">>,
     <<"-","i","n","f">>, <<"1","_","_","0">>}
AmountSuffixes ==
    {<<>>, <<" ","m","i","l","l","i","o","n">>, <<" ","b","i","l","l","i","o","n">>, <<" ","M","i","l","l","i","o","n">>,
     <<" ","m","i","l","l","i","o","n"," ","o","f"," ","t","h","e"," ","b","i","l","l","i","o","n">>, <<" ","b","i","l","l","i","o","n",","," ","n","o","t"," ","m","i","l","l","i","o","n">>,
     <<"m","i","l","l","i","o","n">>}

AmountStrings ==
    {p \o n \o x : p \in AmountPrefixes, n \in AmountLiterals \cup AmountNonLiterals,
                    x \in AmountSuffixes}

InitParse ==
    /\ amount_str \in {Some(a) : a \in AmountStrings}
    /\ parsed = None
    /\ DedupIdle
    /\ BuildIdle
    /\ DbIdle
    /\ RunsIdle
    /\ OtherIdle
    /\ ExtractIdle

CallParseDollarAmount ==
    /\ parsed = None
    /\ parsed' = Some(ParseDollarAmount(amount_str[1]))
    /\ UNCHANGED <<amount_str, dedupVars, buildVars, dbVars, runVars, extractVars, otherVars>>

NextParse == CallParseDollarAmount

SpecParse == InitParse /\ [][NextParse]_vars

\* the length of the run of characters of a class that starts at i
RECURSIVE RunLength(_, _, _)
RunLength(s, i, class) ==
    IF i <= Len(s) /\ s[i] \in class THEN 1 + RunLength(s, i + 1, class) ELSE 0

UpperChars == {"A","B","C","D","E","F","G","H","I","J","K","L","M",
               "N","O","P","Q","R","S","T","U","V","W","X","Y","Z"}

(***************************************************************************)
(* PDFExtractor._normalize_jurisdiction                                    *)
(***************************************************************************)
\* mapping, in declaration order: <<key, code>>
JurisdictionMapping ==
    <<<<<<"d","e","l","a","w","a","r","e">>, <<"u","s","_","d","e">>>>,
      <<<<"n","e","v","a","d","a">>, <<"u","s","_","n","v">>>>,
      <<<<"w","y","o","m","i","n","g">>, <<"u","s","_","w","y">>>>,
      <<<<"c","a","l","i","f","o","r","n","i","a">>, <<"u","s","_","c","a">>>>,
      <<<<"n","e","w"," ","y","o","r","k">>, <<"u","s","_","n","y">>>>,
      <<<<"t","e","x","a","s">>, <<"u","s","_","t","x">>>>,
      <<<<"f","l","o","r","i","d","a">>, <<"u","s","_","f","l">>>>,
      <<<<"b","r","i","t","i","s","h"," ","v","i","r","g","i","n"," ","i","s","l","a","n","d","s">>, <<"v","g">>>>,
      <<<<"b","v","i">>, <<"v","g">>>>,
      <<<<"c","a","y","m","a","n"," ","i","s","l","a","n","d","s">>, <<"k","y">>>>,
      <<<<"c","a","y","m","a","n">>, <<"k","y">>>>,
      <<<<"p","a","n","a","m","a">>, <<"p","a">>>>,
      <<<<"s","i","n","g","a","p","o","r","e">>, <<"s","g">>>>,
      <<<<"h","o","n","g"," ","k","o","n","g">>, <<"h","k">>>>,
      <<<<"u","n","i","t","e","d"," ","k","i","n","g","d","o","m">>, <<"g","b">>>>,
      <<<<"e","n","g","l","a","n","d">>, <<"g","b">>>>>>

\* for key, code in mapping.items(): the last matching entry wins
RECURSIVE NormalizeLoopLastWins(_, _)
NormalizeLoopLastWins(jur_lower, k) ==
    IF k > Len(JurisdictionMapping) THEN None
    ELSE LET later == NormalizeLoopLastWins(jur_lower, k + 1) IN
         IF later # None THEN later
         ELSE IF Contains(jur_lower, JurisdictionMapping[k][1])
         THEN Some(JurisdictionMapping[k][2])
         ELSE None

\* for key, code in mapping.items(): if key in jur_lower: return code
RECURSIVE NormalizeLoop(_, _)
NormalizeLoop(jur_lower, k) ==
    IF k > Len(JurisdictionMapping) THEN None
    ELSE IF Contains(jur_lower, JurisdictionMapping[k][1])
    THEN Some(JurisdictionMapping[k][2])
    ELSE NormalizeLoop(jur_lower, k + 1)

\* the fallback cut after four characters
NormalizeJurisdictionCutFour(jur) ==
    LET jur_lower == Strip(Lower(jur))
        hit == NormalizeLoop(jur_lower, 1)
    IN  IF hit # None THEN hit[1]
        ELSE IF Len(jur_lower) > 4 THEN SubSeq(jur_lower, 1, 4) ELSE jur_lower

\* _normalize_jurisdiction(jur)
NormalizeJurisdiction(jur) ==
    LET jur_lower == Strip(Lower(jur))
        hit == NormalizeLoop(jur_lower, 1)
    IN  IF hit # None THEN hit[1]
        ELSE IF Len(jur_lower) > 5 THEN SubSeq(jur_lower, 1, 5) ELSE jur_lower

\* jurisdiction strings: one or two place names with padding
JurisdictionWords ==
    {<<"D","e","l","a","w","a","r","e">>,
     <<"N","e","v","a","d","a">>,
     <<"B","r","i","t","i","s","h"," ","V","i","r","g","i","n"," ","I","s","l","a","n","d","s">>,
     <<"B","V","I">>,
     <<"C","a","y","m","a","n"," ","I","s","l","a","n","d","s">>,
     <<"c","a","y","m","a","n">>,
     <<"R","u","r","i","t","a","n","i","a">>,
     <<"P","e","r","u">>,
     <<"T","E","X","A","S">>,
     <<"N","e","w"," ","Y","o","r","k">>,
     <<"N","e","w"," ","E","n","g","l","a","n","d">>,
     <<"H","o","n","g"," "," ","K","o","n","g">>,
     <<>>}
JurisdictionSeparators == {<<" ","a","n","d"," ">>, <<","," ">>, <<>>}
JurisdictionPadding == {<<>>, <<" ">>, <<"\n">>}

JurisdictionStrings ==
    {p \o a \o s \o b \o q : p \in JurisdictionPadding, a \in JurisdictionWords,
                               s \in JurisdictionSeparators, b \in JurisdictionWords,
                               q \in JurisdictionPadding}

InitNormalize ==
    /\ jur_in \in {Some(j) : j \in JurisdictionStrings}
    /\ jur_code = None
    /\ indicators = None /\ classified = None
    /\ TextIdle
    /\ DedupIdle
    /\ BuildIdle
    /\ ParseIdle
    /\ DbIdle
    /\ RunsIdle
    /\ OtherIdle

CallNormalizeJurisdiction ==
    /\ jur_code = None
    /\ jur_code' = Some(NormalizeJurisdiction(jur_in[1]))
    /\ UNCHANGED <<jur_in, classVars, textVars, dedupVars, buildVars, parseVars, dbVars, runVars, otherVars>>

NextNormalize == CallNormalizeJurisdiction

SpecNormalize == InitNormalize /\ [][NextNormalize]_vars

(***************************************************************************)
(* PDFExtractor._classify_fraud_type                                       *)
(***************************************************************************)
\* type_mapping, in declaration order: <<keyword, fraud_type>>
TypeMapping ==
    <<<<<<"p","o","n","z","i">>, "Ponzi Scheme">>,
      <<<<"p","y","r","a","m","i","d">>, "Pyramid Scheme">>,
      <<<<"s","e","c","u","r","i","t","i","e","s"," ","f","r","a","u","d">>, "Securities Fraud">>,
      <<<<"i","n","v","e","s","t","m","e","n","t"," ","f","r","a","u","d">>, "Investment Fraud">>,
      <<<<"w","i","r","e"," ","f","r","a","u","d">>, "Wire Fraud">>,
      <<<<"m","o","n","e","y"," ","l","a","u","n","d","e","r","i","n","g">>, "Money Laundering">>,
      <<<<"a","c","c","o","u","n","t","i","n","g"," ","f","r","a","u","d">>, "Accounting Fraud">>,
      <<<<"i","n","s","i","d","e","r"," ","t","r","a","d","i","n","g">>, "Insider Trading">>,
      <<<<"m","a","r","k","e","t"," ","m","a","n","i","p","u","l","a","t","i","o","n">>, "Market Manipulation">>,
      <<<<"p","u","m","p">>, "Market Manipulation">>,
      <<<<"s","h","e","l","l"," ","c","o","m","p","a","n","y">>, "Shell Company Fraud">>,
      <<<<"u","n","r","e","g","i","s","t","e","r","e","d">>, "Unregistered Securities">>,
      <<<<"o","f","f","e","r","i","n","g"," ","f","r","a","u","d">>, "Offering Fraud">>>>

\* " ".join(strs)
RECURSIVE JoinSpace(_)
JoinSpace(strs) ==
    IF strs = <<>> THEN <<>>
    ELSE IF Len(strs) = 1 THEN strs[1]
    ELSE strs[1] \o <<" ">> \o JoinSpace(Tail(strs))

\* the loop without the test fraud_type not in fraud_types
RECURSIVE ClassifyLoopRepeating(_, _, _)
ClassifyLoopRepeating(indicator_text, k, types) ==
    IF k > Len(TypeMapping) THEN types
    ELSE IF Contains(indicator_text, TypeMapping[k][1])
    THEN ClassifyLoopRepeating(indicator_text, k + 1, Append(types, TypeMapping[k][2]))
    ELSE ClassifyLoopRepeating(indicator_text, k + 1, types)

\* for keyword, fraud_type in type_mapping.items(): ...
RECURSIVE ClassifyLoop(_, _, _)
ClassifyLoop(indicator_text, k, types) ==
    IF k > Len(TypeMapping) THEN types
    ELSE IF /\ Contains(indicator_text, TypeMapping[k][1])
            /\ \A i \in 1..Len(types) : types[i] # TypeMapping[k][2]
    THEN ClassifyLoop(indicator_text, k + 1, Append(types, TypeMapping[k][2]))
    ELSE ClassifyLoop(indicator_text, k + 1, types)

\* without the default
ClassifyFraudTypeNoDefault(inds) == ClassifyLoop(Lower(JoinSpace(inds)), 1, <<>>)

\* _classify_fraud_type(indicators)
ClassifyFraudType(inds) ==
    LET types == ClassifyLoop(Lower(JoinSpace(inds)), 1, <<>>)
    IN  IF types = <<>> THEN <<"Securities Fraud">> ELSE types

\* indicator strings: phrases the fraud_indicators rules match, and fragments
IndicatorPool ==
    {<<"p","o","n","z","i"," ","s","c","h","e","m","e">>,
     <<"P","o","n","z","i"," ","s","c","h","e","m","e">>,
     <<"p","y","r","a","m","i","d"," ","s","c","h","e","m","e">>,
     <<"s","e","c","u","r","i","t","i","e","s"," ","f","r","a","u","d">>,
     <<"m","a","r","k","e","t"," ","m","a","n","i","p","u","l","a","t","i","o","n">>,
     <<"p","u","m","p","-","a","n","d","-","d","u","m","p">>,
     <<"m","a","i","l"," ","f","r","a","u","d">>,
     <<"u","n","r","e","g","i","s","t","e","r","e","d"," ","s","e","c","u","r","i","t","i","e","s">>,
     <<"w","i","r","e">>,
     <<"f","r","a","u","d">>,
     <<>>}

MaxIndicators == 2

InitClassify ==
    /\ indicators \in {Some(l) : l \in SeqsUpTo(IndicatorPool, MaxIndicators)}
    /\ classified = None
    /\ NormIdle
    /\ TextIdle
    /\ DedupIdle
    /\ BuildIdle
    /\ ParseIdle
    /\ DbIdle
    /\ RunsIdle
    /\ OtherIdle

CallClassifyFraudType ==
    /\ classified = None
    /\ classified' = Some(ClassifyFraudType(indicators[1]))
    /\ UNCHANGED <<indicators, normVars, textVars, dedupVars, buildVars, parseVars, dbVars, runVars, otherVars>>

NextClassify == CallClassifyFraudType

SpecClassify == InitClassify /\ [][NextClassify]_vars

(***************************************************************************)
(* Regular expressions as PDFExtractor uses them: re.findall(pattern,      *)
(* text, re.IGNORECASE | re.MULTILINE) for patterns with one group.        *)
(* Ends(r, s, i) lists the positions where a match of r that starts at i   *)
(* can end, in the order the backtracking matcher tries them.              *)
(***************************************************************************)
Ch(cs) == [t |-> "ch", cs |-> cs]
NotCh(cs) == [t |-> "nch", cs |-> cs]
Eol == [t |-> "eol"]
Cat(rs) == [t |-> "cat", rs |-> rs]
Alt(rs) == [t |-> "alt", rs |-> rs]
Rep(r, min, max) == [t |-> "rep", r |-> r, min |-> min, max |-> Some(max), greedy |-> TRUE]
\* r+ and r*: no upper limit; r+? is the lazy one
Plus(r) == [t |-> "rep", r |-> r, min |-> 1, max |-> None, greedy |-> TRUE]
Star(r) == [t |-> "rep", r |-> r, min |-> 0, max |-> None, greedy |-> TRUE]
LazyPlus(r) == [t |-> "rep", r |-> r, min |-> 1, max |-> None, greedy |-> FALSE]
\* the most repetitions of r that a text s allows: each takes a character
MaxCount(r, s) == IF r.max = None THEN Len(s) ELSE r.max[1]
Opt(r) == Rep(r, 0, 1)
Lit(s) == [t |-> "lit", s |-> Lower(s)]

LetterChars == {"a","b","c","d","e","f","g","h","i","j","k","l","m",
                "n","o","p","q","r","s","t","u","v","w","x","y","z"}
SpaceChars == {" ", "\t", "\n", "\r", "\f"}
Digit == Ch(DigitChars)
Space == Ch(SpaceChars)
Word == Ch(LetterChars \cup DigitChars \cup {"_"})
Letter == Ch(LetterChars)
AnyChar == NotCh({"\n"})

\* the first occurrence of each position
RECURSIVE Firsts(_, _)
Firsts(ps, seen) ==
    IF ps = <<>> THEN <<>>
    ELSE IF Head(ps) \in seen THEN Firsts(Tail(ps), seen)
    ELSE <<Head(ps)>> \o Firsts(Tail(ps), seen \cup {Head(ps)})

RECURSIVE Ends(_, _, _)
RECURSIVE EndsFrom(_, _, _)
RECURSIVE CatEnds(_, _, _, _)
RECURSIVE AltEnds(_, _, _, _)
RECURSIVE RepEnds(_, _, _, _)
RECURSIVE RepFrom(_, _, _, _)

EndsFrom(r, s, starts) ==
    IF starts = <<>> THEN <<>>
    ELSE Ends(r, s, Head(starts)) \o EndsFrom(r, s, Tail(starts))

CatEnds(rs, k, s, starts) ==
    IF k > Len(rs) \/ starts = <<>> THEN starts
    ELSE CatEnds(rs, k + 1, s, Firsts(EndsFrom(rs[k], s, starts), {}))

AltEnds(rs, k, s, i) ==
    IF k > Len(rs) THEN <<>> ELSE Ends(rs[k], s, i) \o AltEnds(rs, k + 1, s, i)

RepFrom(r, s, starts, n) ==
    IF starts = <<>> THEN <<>>
    ELSE RepEnds(r, s, Head(starts), n) \o RepFrom(r, s, Tail(starts), n)

RepEnds(r, s, i, n) ==
    LET more == IF n < MaxCount(r, s)
                THEN RepFrom(r, s, SelectSeq(Ends(r.r, s, i), LAMBDA e : e > i), n + 1)
                ELSE <<>>
        here == IF n >= r.min THEN <<i>> ELSE <<>>
    IN  IF r.greedy THEN more \o here ELSE here \o more

\* one character of the class of r at position i
Accepts(r, s, i) ==
    IF r.t = "ch" THEN LowerChar(s[i]) \in r.cs ELSE s[i] \notin r.cs

\* how many characters from i on are in the class of r, up to max
RECURSIVE ClassRun(_, _, _, _)
ClassRun(r, s, i, max) ==
    IF max > 0 /\ i <= Len(s) /\ Accepts(r, s, i) THEN 1 + ClassRun(r, s, i + 1, max - 1) ELSE 0

\* a repeated character class: the longest run first when greedy
ClassRepEnds(r, s, i) ==
    LET run == ClassRun(r.r, s, i, MaxCount(r, s)) IN
    IF run < r.min THEN <<>>
    ELSE IF r.greedy THEN [k \in 1..(run - r.min + 1) |-> i + run - k + 1]
    ELSE [k \in 1..(run - r.min + 1) |-> i + r.min + k - 1]

Ends(r, s, i) ==
    CASE r.t = "ch"  -> IF i <= Len(s) /\ LowerChar(s[i]) \in r.cs THEN <<i + 1>> ELSE <<>>
      [] r.t = "nch" -> IF i <= Len(s) /\ s[i] \notin r.cs THEN <<i + 1>> ELSE <<>>
      [] r.t = "lit" -> IF /\ i + Len(r.s) - 1 <= Len(s)
                           /\ \A k \in 1..Len(r.s) : LowerChar(s[i + k - 1]) = r.s[k]
                        THEN <<i + Len(r.s)>> ELSE <<>>
      [] r.t = "rep" /\ r.r.t \in {"ch", "nch"} -> ClassRepEnds(r, s, i)
      [] r.t = "eol" -> IF i = Len(s) + 1 THEN <<i>>
                        ELSE IF i <= Len(s) /\ s[i] = "\n" THEN <<i>> ELSE <<>>
      [] r.t = "cat" -> CatEnds(r.rs, 1, s, <<i>>)
      [] r.t = "alt" -> Firsts(AltEnds(r.rs, 1, s, i), {})
      [] r.t = "rep" /\ r.r.t \notin {"ch", "nch"} -> Firsts(RepEnds(r, s, i, 0), {})

\* a pattern: what precedes the group, the group, what follows it
Pattern(pre, group, post) == [pre |-> pre, group |-> group, post |-> post]

\* the first alternative that succeeds
FirstMatch(m, next) == IF m # <<>> THEN m ELSE next

\* the match whose group is s[a..b-1] when what follows the group ends at cs[1]
WithEnd(a, b, cs) == IF cs = <<>> THEN <<>> ELSE <<a, b, cs[1]>>

RECURSIVE MatchFromGroup(_, _, _, _)
MatchFromGroup(pat, s, a, bs) ==
    IF bs = <<>> THEN <<>>
    ELSE FirstMatch(WithEnd(a, Head(bs), Ends(pat.post, s, Head(bs))),
                    MatchFromGroup(pat, s, a, Tail(bs)))

RECURSIVE MatchFromPre(_, _, _)
MatchFromPre(pat, s, as) ==
    IF as = <<>> THEN <<>>
    ELSE FirstMatch(MatchFromGroup(pat, s, Head(as), Ends(pat.group, s, Head(as))),
                    MatchFromPre(pat, s, Tail(as)))

\* the match that starts at i: <<group start, group end, match end>>, or <<>>
MatchAt(pat, s, i) == MatchFromPre(pat, s, Ends(pat.pre, s, i))

\* re.findall(pattern, text): the group of each match, left to right
RECURSIVE FindAll(_, _, _)
RECURSIVE FindAllAfter(_, _, _, _)
FindAll(pat, s, i) ==
    IF i > Len(s) THEN <<>> ELSE FindAllAfter(pat, s, i, MatchAt(pat, s, i))

\* the scan goes on after the match m found at i, or at i + 1 without one
FindAllAfter(pat, s, i, m) ==
    IF m = <<>> THEN FindAll(pat, s, i + 1)
    ELSE <<SubSeq(s, m[1], m[2] - 1)>>
         \o FindAll(pat, s, IF m[3] > i THEN m[3] ELSE i + 1)

(***************************************************************************)
(* PDFExtractor.PATTERNS and _extract_pattern                              *)
(***************************************************************************)
Empty == Cat(<<>>)

\* \d{1,2}[:-]\w{2,4}[:-]\d+
DocketNumber == Cat(<<Rep(Digit, 1, 2), Ch({":", "-"}), Rep(Word, 2, 4), Ch({":", "-"}), Plus(Digit)>>)

\* \w+\s+\d{1,2},?\s+\d{4}
LongDate == Cat(<<Plus(Word), Plus(Space), Rep(Digit, 1, 2), Opt(Ch({","})), Plus(Space), Rep(Digit, 4, 4)>>)

\* [A-Z][A-Za-z0-9\s,\.&]+(?:Inc\.|LLC|Ltd\.|Corp\.|Corporation|LP|LLP|PTE|SA|AG|BV|GmbH)
CompanyName ==
    Cat(<<Letter, Plus(Ch(LetterChars \cup DigitChars \cup SpaceChars \cup {",", ".", "&"})),
          Alt(<<Lit(<<"I","n","c",".">>), Lit(<<"L","L","C">>), Lit(<<"L","t","d",".">>), Lit(<<"C","o","r","p",".">>), Lit(<<"C","o","r","p","o","r","a","t","i","o","n">>), Lit(<<"L","P">>), Lit(<<"L","L","P">>), Lit(<<"P","T","E">>), Lit(<<"S","A">>), Lit(<<"A","G">>), Lit(<<"B","V">>), Lit(<<"G","m","b","H">>)>>)>>)

\* [A-Z][a-z]+\s+(?:[A-Z]\.?\s+)?[A-Z][a-z]+
PersonName ==
    Cat(<<Letter, Plus(Letter), Plus(Space),
          Opt(Cat(<<Letter, Opt(Ch({"."})), Plus(Space)>>)), Letter, Plus(Letter)>>)

\* Defendant[s]?[:\s]+
DefendantLabel == Cat(<<Lit(<<"D","e","f","e","n","d","a","n","t">>), Opt(Ch({"s"})), Plus(Ch(SpaceChars \cup {":"}))>>)

\* \d{1,3}(?:,\d{3})*(?:\.\d{2})?
DollarFigure ==
    Cat(<<Rep(Digit, 1, 3), Star(Cat(<<Ch({","}), Rep(Digit, 3, 3)>>)),
          Opt(Cat(<<Ch({"."}), Rep(Digit, 2, 2)>>))>>)

MagnitudeWord == Alt(<<Lit(<<"m","i","l","l","i","o","n">>), Lit(<<"b","i","l","l","i","o","n">>)>>)

\* [A-Za-z\s]+?
PlaceName == LazyPlus(Ch(LetterChars \cup SpaceChars))

\* PATTERNS[pattern_key], in declaration order
Patterns(pattern_key) ==
    CASE pattern_key = "case_number" ->
           <<Pattern(Cat(<<Lit(<<"C","a","s","e">>), Plus(Space), Alt(<<Cat(<<Lit(<<"N","o">>), Opt(Ch({"."}))>>), Lit(<<"N","u","m","b","e","r">>)>>),
                           Star(Ch(SpaceChars \cup {":"}))>>), DocketNumber, Empty),
             Pattern(Cat(<<Lit(<<"C","i","v","i","l"," ","A","c","t","i","o","n"," ","N","o">>), Opt(Ch({"."})), Star(Space)>>), DocketNumber, Empty),
             Pattern(Empty, Cat(<<Rep(Digit, 1, 2), Ch({":", "-"}), Lit(<<"c","v">>), Ch({":", "-"}), Plus(Digit)>>), Empty)>>
      [] pattern_key = "complaint_date" ->
           <<Pattern(Cat(<<Alt(<<Lit(<<"F","i","l","e","d">>), Lit(<<"D","a","t","e","d">>)>>), Star(Ch(SpaceChars \cup {":"}))>>), LongDate, Empty),
             Pattern(Empty, LongDate, Empty)>>
      [] pattern_key = "court" ->
           <<Pattern(Cat(<<Lit(<<"U","N","I","T","E","D"," ","S","T","A","T","E","S"," ","D","I","S","T","R","I","C","T"," ","C","O","U","R","T">>), Plus(Space), Opt(Cat(<<Lit(<<"F","O","R"," ","T","H","E">>), Plus(Space)>>))>>),
                     LazyPlus(AnyChar), Alt(<<Ch({"\n"}), Eol>>)),
             Pattern(Cat(<<Lit(<<"I","N"," ","T","H","E"," ","U","N","I","T","E","D"," ","S","T","A","T","E","S"," ","D","I","S","T","R","I","C","T"," ","C","O","U","R","T">>), Plus(Space)>>),
                     LazyPlus(AnyChar), Alt(<<Ch({"\n"}), Eol>>))>>
      [] pattern_key = "defendant_company" ->
           <<Pattern(DefendantLabel, CompanyName, Empty),
             Pattern(Empty, CompanyName,
                     Cat(<<Plus(Ch(SpaceChars \cup {","})), Opt(Alt(<<Lit(<<"a"," ">>), Lit(<<"a","n"," ">>)>>)),
                           Alt(<<Lit(<<"D","e","l","a","w","a","r","e">>), Lit(<<"N","e","v","a","d","a">>), Lit(<<"W","y","o","m","i","n","g">>), Lit(<<"C","a","l","i","f","o","r","n","i","a">>), Lit(<<"N","e","w"," ","Y","o","r","k">>), Lit(<<"T","e","x","a","s">>), Lit(<<"F","l","o","r","i","d","a">>), Lit(<<"B","r","i","t","i","s","h"," ","V","i","r","g","i","n"," ","I","s","l","a","n","d","s">>), Lit(<<"C","a","y","m","a","n">>)>>)>>))>>
      [] pattern_key = "defendant_individual" ->
           <<Pattern(DefendantLabel, PersonName, Empty),
             Pattern(Empty, PersonName,
                     Cat(<<Plus(Ch(SpaceChars \cup {","})), Alt(<<Lit(<<"a","n"," ","i","n","d","i","v","i","d","u","a","l">>), Lit(<<"i","n","d","i","v","i","d","u","a","l","l","y">>)>>)>>))>>
      [] pattern_key = "dollar_amount" ->
           <<Pattern(Ch({"$"}), DollarFigure, Cat(<<Star(Space), Opt(MagnitudeWord)>>)),
             Pattern(Empty, DollarFigure, Cat(<<Star(Space), MagnitudeWord, Star(Space), Lit(<<"d","o","l","l","a","r","s">>)>>))>>
      [] pattern_key = "jurisdiction" ->
           <<Pattern(Cat(<<Alt(<<Lit(<<"i","n","c","o","r","p","o","r","a","t","e","d">>), Lit(<<"o","r","g","a","n","i","z","e","d">>), Lit(<<"f","o","r","m","e","d">>)>>), Plus(Space), Alt(<<Lit(<<"i","n">>), Lit(<<"u","n","d","e","r"," ","t","h","e"," ","l","a","w","s"," ","o","f">>)>>), Plus(Space)>>),
                     PlaceName, Ch({".", ",", ";", "\n"})),
             Pattern(Cat(<<Alt(<<Lit(<<"a"," ">>), Lit(<<"a","n"," ">>)>>), Star(Space)>>), PlaceName,
                     Cat(<<Star(Space), Alt(<<Lit(<<"c","o","r","p","o","r","a","t","i","o","n">>), Lit(<<"c","o","m","p","a","n","y">>), Lit(<<"L","L","C">>), Lit(<<"l","i","m","i","t","e","d">>)>>)>>))>>
      [] pattern_key = "fraud_indicators" ->
           <<Pattern(Empty, Lit(<<"P","o","n","z","i"," ","s","c","h","e","m","e">>), Empty),
             Pattern(Empty, Lit(<<"p","y","r","a","m","i","d"," ","s","c","h","e","m","e">>), Empty),
             Pattern(Empty, Lit(<<"s","e","c","u","r","i","t","i","e","s"," ","f","r","a","u","d">>), Empty),
             Pattern(Empty, Lit(<<"i","n","v","e","s","t","m","e","n","t"," ","f","r","a","u","d">>), Empty),
             Pattern(Empty, Lit(<<"w","i","r","e"," ","f","r","a","u","d">>), Empty),
             Pattern(Empty, Lit(<<"m","a","i","l"," ","f","r","a","u","d">>), Empty),
             Pattern(Empty, Lit(<<"m","o","n","e","y"," ","l","a","u","n","d","e","r","i","n","g">>), Empty),
             Pattern(Empty, Lit(<<"a","c","c","o","u","n","t","i","n","g"," ","f","r","a","u","d">>), Empty),
             Pattern(Empty, Lit(<<"i","n","s","i","d","e","r"," ","t","r","a","d","i","n","g">>), Empty),
             Pattern(Empty, Lit(<<"m","a","r","k","e","t"," ","m","a","n","i","p","u","l","a","t","i","o","n">>), Empty),
             Pattern(Empty, Cat(<<Lit(<<"p","u","m","p">>), AnyChar, Lit(<<"a","n","d">>), AnyChar, Lit(<<"d","u","m","p">>)>>), Empty),
             Pattern(Empty, Lit(<<"s","h","e","l","l"," ","c","o","m","p","a","n","y">>), Empty),
             Pattern(Empty, Lit(<<"u","n","r","e","g","i","s","t","e","r","e","d"," ","s","e","c","u","r","i","t","i","e","s">>), Empty),
             Pattern(Empty, Lit(<<"o","f","f","e","r","i","n","g"," ","f","r","a","u","d">>), Empty)>>

PatternKeys ==
    {"case_number", "complaint_date", "court", "defendant_company", "defendant_individual",
     "dollar_amount", "jurisdiction", "fraud_indicators"}

\* for pattern in patterns: matches.extend(re.findall(pattern, text, ...))
RECURSIVE AllMatches(_, _, _)
AllMatches(patterns, k, txt) ==
    IF k > Len(patterns) THEN <<>>
    ELSE FindAll(patterns[k], txt, 1) \o AllMatches(patterns, k + 1, txt)

\* the loop without the test m_clean not in seen
RECURSIVE UniqueLoopKeepAll(_, _, _)
UniqueLoopKeepAll(ms, seen, out) ==
    IF ms = <<>> THEN out
    ELSE UniqueLoopKeepAll(Tail(ms), seen, Append(out, Strip(Head(ms))))

\* for m in matches: m_clean = m.strip(); if m_clean not in seen: ...
RECURSIVE UniqueLoop(_, _, _)
UniqueLoop(ms, seen, out) ==
    IF ms = <<>> THEN out
    ELSE LET m_clean == Strip(Head(ms)) IN
         IF m_clean \notin seen
         THEN UniqueLoop(Tail(ms), seen \cup {m_clean}, Append(out, m_clean))
         ELSE UniqueLoop(Tail(ms), seen, out)

\* if first_only and unique: return [unique[0]]; return unique
FirstOnly(uniq, first_only) ==
    IF first_only /\ uniq # <<>> THEN <<uniq[1]>> ELSE uniq

LastOnly(uniq, first_only) ==
    IF first_only /\ uniq # <<>> THEN <<uniq[Len(uniq)]>> ELSE uniq

\* first_only returns the last element
ExtractPatternLastOnly(txt, pattern_key, first_only) ==
    LastOnly(UniqueLoop(AllMatches(Patterns(pattern_key), 1, txt), {}, <<>>), first_only)

\* _extract_pattern(text, pattern_key, first_only)
ExtractPattern(txt, pattern_key, first_only) ==
    FirstOnly(UniqueLoop(AllMatches(Patterns(pattern_key), 1, txt), {}, <<>>), first_only)

(***************************************************************************)
(* PDFExtractor.extract_case                                               *)
(***************************************************************************)
RECURSIVE Pow10(_)
Pow10(k) == IF k = 0 THEN 1 ELSE 10 * Pow10(k - 1)

RECURSIVE DigitCount(_)
DigitCount(n) == IF n < 10 THEN 1 ELSE 1 + DigitCount(n \div 10)

\* a > b for two finite floats that are not negative
FloatGreater(a, b) ==
    IF a.m = 0 THEN FALSE
    ELSE IF b.m = 0 THEN TRUE
    ELSE LET da == DigitCount(a.m) + a.e
             db_ == DigitCount(b.m) + b.e
             low == IF a.e < b.e THEN a.e ELSE b.e
         IN  IF da # db_ THEN da > db_
             ELSE a.m * Pow10(a.e - low) > b.m * Pow10(b.e - low)

TenThousand == Dec(1, 4)

\* max(valid_amounts): the first element that none exceeds
MaxOf(vs) ==
    vs[CHOOSE i \in 1..Len(vs) :
          /\ \A j \in 1..Len(vs) : ~FloatGreater(vs[j], vs[i])
          /\ \A j \in 1..(i - 1) : FloatGreater(vs[i], vs[j])]

\* parsed_amounts = [self._parse_dollar_amount(a) for a in amounts]
ParsedAmountsOf(amounts) == [i \in 1..Len(amounts) |-> ParseDollarAmount(amounts[i])]

\* valid_amounts = [a for a in parsed_amounts if a and a > 10000]
ValidAmounts(parsed_amounts) ==
    SelectSeq(parsed_amounts, LAMBDA a : a # None /\ FloatGreater(a[1], TenThousand))

\* if valid_amounts: case.alleged_amount = max(valid_amounts)
MaxOrNone(valid_amounts) ==
    IF valid_amounts = <<>> THEN None
    ELSE Some(MaxOf([i \in 1..Len(valid_amounts) |-> valid_amounts[i][1]]))

LastOrNone(valid_amounts) ==
    IF valid_amounts = <<>> THEN None ELSE valid_amounts[Len(valid_amounts)]

\* the last of the amounts above the threshold instead of the largest
AllegedAmountLastValid(txt) ==
    LastOrNone(ValidAmounts(ParsedAmountsOf(ExtractPattern(txt, "dollar_amount", FALSE))))

\* extract_case: case.alleged_amount, None when it is left unset
AllegedAmount(txt) ==
    MaxOrNone(ValidAmounts(ParsedAmountsOf(ExtractPattern(txt, "dollar_amount", FALSE))))

MonthNames ==
    <<<<"j","a","n","u","a","r","y">>,
      <<"f","e","b","r","u","a","r","y">>,
      <<"m","a","r","c","h">>,
      <<"a","p","r","i","l">>,
      <<"m","a","y">>,
      <<"j","u","n","e">>,
      <<"j","u","l","y">>,
      <<"a","u","g","u","s","t">>,
      <<"s","e","p","t","e","m","b","e","r">>,
      <<"o","c","t","o","b","e","r">>,
      <<"n","o","v","e","m","b","e","r">>,
      <<"d","e","c","e","m","b","e","r">>>>

DaysInMonth(year, month) ==
    IF month = 2
    THEN (IF year % 4 = 0 /\ (year % 100 # 0 \/ year % 400 = 0) THEN 29 ELSE 28)
    ELSE IF month \in {4, 6, 9, 11} THEN 30 ELSE 31

TwoDigits(n) == <<CHOOSE c \in DigitChars : DigitVal(c) = n \div 10,
                  CHOOSE c \in DigitChars : DigitVal(c) = n % 10>>

\* datetime.strptime(s.replace(",", ""), "%B %d %Y").strftime("%Y-%m-%d") for
\* a match s of \w+\s+\d{1,2},?\s+\d{4}; the match itself on ValueError.
\* strftime prints the year without leading zeros (glibc).
NormalizeDate(s) ==
    LET clean == Remove(s, ",")
        wordLen == RunLength(clean, 1, LetterChars \cup UpperChars \cup DigitChars \cup {"_"})
        word == Lower(SubSeq(clean, 1, wordLen))
        dayStart == wordLen + 1 + RunLength(clean, wordLen + 1, SpaceChars)
        dayLen == RunLength(clean, dayStart, DigitChars)
        yearDigits == SubSeq(clean, Len(clean) - 3, Len(clean))
        day == DigitsToInt(SubSeq(clean, dayStart, dayStart + dayLen - 1))
        year == DigitsToInt(yearDigits)
        isMonth == \E mo \in 1..12 : MonthNames[mo] = word
        month == CHOOSE mo \in 1..12 : MonthNames[mo] = word
    IN  IF isMonth /\ year >= 1 /\ day >= 1 /\ day <= DaysInMonth(year, month)
        THEN (IF year = 0 THEN <<"0">> ELSE DropLeadingZeros(yearDigits))
             \o <<"-">> \o TwoDigits(month) \o <<"-">> \o TwoDigits(day)
        ELSE s

FirstTen(xs) == SubSeq(xs, 1, IF Len(xs) < 10 THEN Len(xs) ELSE 10)

\* extract_case(pdf_path, source_url) for a PDF whose text is txt
\* a placeholder instead of None when no case number was found
CaseNumberOrUnknown(case_nums) ==
    IF case_nums = <<>> THEN Some(<<"U","n","k","n","o","w","n">>) ELSE Some(case_nums[1])

\* if case_nums: case.case_number = case_nums[0]
CaseNumberOf(case_nums) == IF case_nums = <<>> THEN None ELSE Some(case_nums[1])

\* if dates: case.complaint_date = the date normalized, or dates[0] as it is
ComplaintDateOf(dates) == IF dates = <<>> THEN None ELSE Some(NormalizeDate(dates[1]))

\* if courts: case.court = courts[0].strip()
CourtOf(courts) == IF courts = <<>> THEN None ELSE Some(Strip(courts[1]))

\* self._normalize_jurisdiction(jurisdictions[0]) if jurisdictions else None
JurisdictionOf(jurisdictions) ==
    IF jurisdictions = <<>> THEN None ELSE Some(NormalizeJurisdiction(jurisdictions[1]))

\* case.defendants: the companies[:10], then the individuals[:10]
DefendantsOf(companies, individuals, jur_code_) ==
    [i \in 1..Len(companies) |->
        Entity(Strip(companies[i]), "company", "defendant", jur_code_)]
    \o [i \in 1..Len(individuals) |->
        Entity(Strip(individuals[i]), "individual", "defendant", None)]

ExtractCase(txt, source_url) ==
    [case_number |-> CaseNumberOf(ExtractPattern(txt, "case_number", TRUE)),
     complaint_date |-> ComplaintDateOf(ExtractPattern(txt, "complaint_date", TRUE)),
     court |-> CourtOf(ExtractPattern(txt, "court", TRUE)),
     defendants |->
         DefendantsOf(FirstTen(ExtractPattern(txt, "defendant_company", FALSE)),
                      FirstTen(ExtractPattern(txt, "defendant_individual", FALSE)),
                      JurisdictionOf(ExtractPattern(txt, "jurisdiction", FALSE))),
     relief_defendants |-> <<>>,
     fraud_types |-> ClassifyFraudType(ExtractPattern(txt, "fraud_indicators", FALSE)),
     alleged_amount |-> AllegedAmount(txt),
     source_url |-> source_url]

\* lines of complaint text
TextLines ==
    <<<<"C","a","s","e"," ","N","o","."," ","2","4","-","c","v","-","0","1","5","0","1">>,
      <<"C","i","v","i","l"," ","A","c","t","i","o","n"," ","N","o","."," ","2","3","-","c","v","-","0","0","0","7","7">>,
      <<"s","e","e"," ","1",":","2","2","-","c","v","-","5">>,
      <<"F","i","l","e","d",":"," ","M","a","r","c","h"," ","5",","," ","2","0","2","4">>,
      <<"o","n"," ","A","p","r","i","l"," ","2","6"," ","2","0","2","4"," ","t","h","e"," ","S","E","C"," ","s","u","e","d">>,
      <<"D","a","t","e","d"," ","F","e","b","r","u","a","r","y"," ","3","0",","," ","2","0","2","3">>,
      <<"U","N","I","T","E","D"," ","S","T","A","T","E","S"," ","D","I","S","T","R","I","C","T"," ","C","O","U","R","T"," ","F","O","R"," ","T","H","E"," ","D","I","S","T","R","I","C","T"," ","O","F"," ","D","E","L","A","W","A","R","E">>,
      <<"I","N"," ","T","H","E"," ","U","N","I","T","E","D"," ","S","T","A","T","E","S"," ","D","I","S","T","R","I","C","T"," ","C","O","U","R","T"," ">>,
      <<"D","e","f","e","n","d","a","n","t"," ","A","c","m","e"," ","C","a","p","i","t","a","l"," ","L","L","C",","," ","a"," ","D","e","l","a","w","a","r","e"," ","c","o","m","p","a","n","y">>,
      <<"B","e","t","a"," ","H","o","l","d","i","n","g","s"," ","I","n","c",".",","," ","a"," ","N","e","v","a","d","a"," ","c","o","r","p","o","r","a","t","i","o","n">>,
      <<"r","a","i","s","e","d"," ","$","5","0",",","0","0","0"," ","a","n","d"," ","$","4"," ","m","i","l","l","i","o","n">>,
      <<"a","b","o","u","t"," ","4"," ","m","i","l","l","i","o","n"," ","d","o","l","l","a","r","s">>,
      <<"f","e","e","s"," ","o","f"," ","$","1","2",",","0","0","0",".","5","0"," ","a","n","d"," ","$","5","0",",","0","0","0">>,
      <<"r","e","t","u","r","n","e","d"," ","$","2",",","5","0","0">>,
      <<"a"," ","P","o","n","z","i"," ","s","c","h","e","m","e"," ","a","n","d"," ","w","i","r","e"," ","f","r","a","u","d">>,
      <<"p","u","m","p","-","a","n","d","-","d","u","m","p",","," ","a"," ","p","o","n","z","i"," ","s","c","h","e","m","e",","," ","a"," ","P","o","n","z","i"," ","s","c","h","e","m","e">>,
      <<"t","o","o","k"," ","$","2","5","0",",","0","0","0"," ","t","h","e","n"," ","$","7","5",",","0","0","0",".","2","5"," ","a","n","d"," ","$","1","0",",","0","0","0">>,
      <<"D","e","f","e","n","d","a","n","t"," ","A","c","m","e"," ","C","a","p","i","t","a","l"," ","L","L","C",";"," ","A","c","m","e"," ","C","a","p","i","t","a","l"," ","L","L","C",","," ","a"," ","D","e","l","a","w","a","r","e"," ","c","o","m","p","a","n","y">>>>

\* "\n".join(text_parts) of the chosen lines
RECURSIVE JoinLines(_)
JoinLines(ls) ==
    IF ls = <<>> THEN <<>>
    ELSE IF Len(ls) = 1 THEN TextLines[ls[1]]
    ELSE TextLines[ls[1]] \o <<"\n">> \o JoinLines(Tail(ls))

\* the documents: the lines of each, in order
Documents ==
    {<<>>, <<1>>, <<2>>, <<3>>, <<3, 1>>, <<1, 3>>, <<3, 2, 1>>, <<4>>, <<5, 4>>, <<4, 5>>, <<6>>,
     <<7>>, <<8, 7>>, <<9>>, <<10, 9>>, <<9, 10>>, <<11>>, <<12>>, <<13>>, <<14>>,
     <<14, 11>>, <<11, 14>>, <<13, 12>>, <<12, 13>>, <<14, 13, 11>>, <<15>>, <<16>>, <<16, 15>>,
     <<15, 16>>, <<17>>, <<17, 13>>, <<13, 17>>, <<18>>,
     <<7, 1, 4, 9, 11, 15>>}

InitText ==
    /\ pdf_text \in {Some(JoinLines(ls)) : ls \in Documents}
    /\ matches = None
    /\ ecase = None
    /\ NormIdle
    /\ ClassIdle
    /\ DedupIdle
    /\ BuildIdle
    /\ ParseIdle
    /\ DbIdle
    /\ RunsIdle
    /\ OtherIdle

\* one call is made on a document: _extract_pattern or extract_case
CallExtractPattern ==
    /\ matches = None /\ ecase = None
    /\ \E pattern_key \in PatternKeys, first_only \in BOOLEAN :
          matches' = Some([pattern_key |-> pattern_key, first_only |-> first_only,
                           unique |-> ExtractPattern(pdf_text[1], pattern_key, first_only)])
    /\ UNCHANGED <<pdf_text, ecase, normVars, classVars, dedupVars, buildVars, parseVars, dbVars, runVars, otherVars>>

CallExtractCase ==
    /\ ecase = None /\ matches = None
    /\ ecase' = Some(ExtractCase(pdf_text[1], None))
    /\ UNCHANGED <<pdf_text, matches, normVars, classVars, dedupVars, buildVars, parseVars, dbVars, runVars, otherVars>>

NextText == CallExtractPattern \/ CallExtractCase

SpecText == InitText /\ [][NextText]_vars

(***************************************************************************)
(* The persisted table data/fraudulent_companies.csv and the scripts that  *)
(* add rows to it                                                          *)
(***************************************************************************)
\* the case_date strings of the model in str order
AllDates ==
    <<"", "2024-01-01", "2024-01-15", "2024-04-26", "2024-06-01", "2025-01-14",
      "2026-10-31", "2026-11-01">>

DateRank(d) == CHOOSE i \in 1..Len(AllDates) : AllDates[i] = d

\* df.sort_values("case_date", ascending=False): for tables of this size the
\* sort is an insertion sort on the reversed column, so rows with equal dates
\* keep their order
RECURSIVE SortByDateDesc(_)
SortByDateDesc(rows) ==
    IF rows = <<>> THEN <<>>
    ELSE LET rest == SortByDateDesc(Tail(rows))
             h == Head(rows)
             pos == Cardinality({i \in 1..Len(rest) :
                        DateRank(rest[i].case_date) > DateRank(h.case_date)})
         IN  SubSeq(rest, 1, pos) \o <<h>> \o SubSeq(rest, pos + 1, Len(rest))

\* df.to_csv followed by pd.read_csv: an empty string comes back as a missing
\* value (a missing case_date or source_url is kept as "")
CsvRow(r) ==
    [r EXCEPT !.jurisdiction = IF @ = Some("") THEN None ELSE @,
              !.case_number = IF @ = Some("") THEN None ELSE @]

ToCsv(rows) == Some([i \in 1..Len(rows) |-> CsvRow(rows[i])])

\* pd.read_csv(db_path) if the file exists else pd.DataFrame()
ReadCsv(file) == IF file = None THEN <<>> ELSE file[1]

\* set(df["company_name"].str.lower())
ExistingNames(df) == {Lower(df[i].company_name) : i \in 1..Len(df)}

\* the duplicate filter of add_to_database, add_known_cases.main,
\* scripts/extract_from_pdfs.main and extract_all_pdfs.main
RECURSIVE FilterNew(_, _, _, _)
FilterNew(new, i, existing_names, unique_cases) ==
    IF i > Len(new) THEN unique_cases
    ELSE LET name_lower == Lower(new[i].company_name) IN
         IF name_lower \notin existing_names
         THEN FilterNew(new, i + 1, existing_names \cup {name_lower},
                        Append(unique_cases, new[i]))
         ELSE FilterNew(new, i + 1, existing_names, unique_cases)

\* add_to_database writing the sorted table even when nothing is new
AddToFrameAlways(df, file, new_cases, unique_cases) ==
    ToCsv(SortByDateDesc(df \o unique_cases))

\* add_to_database after df was read: the file is left alone when nothing
\* is new, else df and the new rows are sorted and written
AddToFrame(df, file, new_cases, unique_cases) ==
    IF new_cases = <<>> \/ unique_cases = <<>> THEN file
    ELSE ToCsv(SortByDateDesc(df \o unique_cases))

AddFrom(df, file, new_cases) ==
    AddToFrame(df, file, new_cases, FilterNew(new_cases, 1, ExistingNames(df), <<>>))

\* process_pdfs.add_to_database(new_cases): the file after the call
AddToDatabase(file, new_cases) == AddFrom(ReadCsv(file), file, new_cases)

(***************************************************************************)
(* scripts/import_sec_enforcement.clean_company_name                       *)
(***************************************************************************)
\* \s*\(CIK\s+\d+\) matched at p: the index of the closing parenthesis, or 0
CikMatchEnd(s, p) ==
    LET q == p + RunLength(s, p, {" ", "\t", "\n"})
        w == RunLength(s, q + 4, {" ", "\t", "\n"})
        d == RunLength(s, q + 4 + w, DigitChars)
        e == q + 4 + w + d
    IN  IF /\ q + 3 <= Len(s)
           /\ SubSeq(s, q, q + 3) = <<"(", "C", "I", "K">>
           /\ w >= 1 /\ d >= 1
           /\ e <= Len(s) /\ s[e] = ")"
        THEN e ELSE 0

RECURSIVE RemoveCik(_)
RemoveCik(s) ==
    IF \E p \in 1..Len(s) : CikMatchEnd(s, p) # 0
    THEN LET p == CHOOSE x \in 1..Len(s) :
                      CikMatchEnd(s, x) # 0 /\ \A y \in 1..(x - 1) : CikMatchEnd(s, y) = 0
         IN  SubSeq(s, 1, p - 1) \o RemoveCik(SubSeq(s, CikMatchEnd(s, p) + 1, Len(s)))
    ELSE s

\* \s*\([A-Z0-9,\s]+\)\s*$ matches at p
TickerMatches(s, p) ==
    LET q == p + RunLength(s, p, {" ", "\t", "\n"})
        n == RunLength(s, q + 1, UpperChars \cup DigitChars \cup {",", " ", "\t", "\n"})
        e == q + 1 + n
    IN  /\ q <= Len(s) /\ s[q] = "("
        /\ n >= 1
        /\ e <= Len(s) /\ s[e] = ")"
        /\ e + RunLength(s, e + 1, {" ", "\t", "\n"}) = Len(s)

RemoveTicker(s) ==
    IF \E p \in 1..Len(s) : TickerMatches(s, p)
    THEN LET p == CHOOSE x \in 1..Len(s) :
                      TickerMatches(s, x) /\ \A y \in 1..(x - 1) : ~TickerMatches(s, y)
         IN  SubSeq(s, 1, p - 1)
    ELSE s

CleanCompanyName(name) == Strip(RemoveTicker(RemoveCik(name)))

\* the type_mapping loop over search_type.split(",")
RECURSIVE MapSearchType(_)
MapSearchType(search_types) ==
    IF search_types = <<>> THEN "SEC Enforcement"
    ELSE CASE Head(search_types) = "ponzi_scheme" -> "Ponzi Scheme"
           [] Head(search_types) = "securities_fraud" -> "Securities Fraud"
           [] Head(search_types) = "investment_fraud" -> "Investment Fraud"
           [] Head(search_types) = "wire_fraud" -> "Wire Fraud"
           [] Head(search_types) = "unregistered_securities" -> "Unregistered Securities"
           [] Head(search_types) = "sec_v_cases" -> "SEC Enforcement"
           [] Head(search_types) = "enforcement_action" -> "SEC Enforcement"
           [] Head(search_types) = "revoked" -> "Registration Revoked"
           [] OTHER -> MapSearchType(Tail(search_types))

RECURSIVE EnforcementRecords(_, _, _, _)
EnforcementRecords(companies, i, existing_names, new_records) ==
    IF i > Len(companies) THEN new_records
    ELSE LET company == companies[i]
             name == CleanCompanyName(company.company_name)
         IN  IF Len(name) < 3 \/ Lower(name) \in existing_names
             THEN EnforcementRecords(companies, i + 1, existing_names, new_records)
             ELSE EnforcementRecords(companies, i + 1,
                      existing_names \cup {Lower(name)},
                      Append(new_records,
                          Rec(name, company.file_date,
                              MapSearchType(company.search_types), None,
                              Some(company.state), "SEC EDGAR",
                              "https://www.sec.gov/cgi-bin/browse-edgar?action=getcompany&CIK=" \o company.cik,
                              Some(""))))

\* scripts/import_sec_enforcement.main: the file after the run
ImportSecEnforcement(file, companies) ==
    LET df == ReadCsv(file)
        new_records == EnforcementRecords(companies, 1, ExistingNames(df), <<>>)
    IN  IF new_records = <<>> THEN file
        ELSE ToCsv(SortByDateDesc(df \o new_records))

(***************************************************************************)
(* Curated lists, documents and feeds                                      *)
(***************************************************************************)
TerraformLabs == <<"T","e","r","r","a","f","o","r","m"," ","L","a","b","s"," ","P","t","e","."," ","L","t","d",".">>
TerraformUpper == <<"T","E","R","R","A","F","O","R","M"," ","L","A","B","S"," ","P","T","E","."," ","L","T","D",".">>

\* scrapers/pdf_extractor.KNOWN_SEC_CASES (two of its entries)
KnownSecCases ==
    <<[case_number |-> Some("1:24-cv-01501"), complaint_date |-> Some("2024-04-26"),
       defendants |-> <<Entity(TerraformLabs, "company", "defendant", Some("sg"))>>,
       relief_defendants |-> <<>>,
       fraud_types |-> <<"Securities Fraud", "Crypto Fraud">>,
       alleged_amount |-> Some(Dec(45, 8)),
       source_url |-> Some("https://www.sec.gov/litigation/complaints/2024/comp-terraform.pdf")],
      [case_number |-> Some("1:25-cv-00219"), complaint_date |-> Some("2025-01-14"),
       defendants |-> <<Entity(XHoldings, "company", "related_entity", Some("us_de"))>>,
       relief_defendants |-> <<>>,
       fraud_types |-> <<"Securities Violation">>,
       alleged_amount |-> None,
       source_url |-> Some("https://www.sec.gov/files/litigation/complaints/2025/comp26219.pdf")]>>

\* scrapers/sec_scraper.SECScraper.KNOWN_CASES (two of its entries) as
\* combine_all_sources.get_sec_known_cases returns them
SecKnownCases ==
    <<Rec(TerraformLabs, "2024-04-26", "Securities Fraud", Some(Dec(45, 8)), Some("sg"),
          "SEC Litigation", "https://www.sec.gov/litigation/litreleases/lr-25696", None),
      Rec(HyperFund, "2024-01-15", "Pyramid Scheme", Some(Dec(17, 8)), Some("us"),
          "SEC Enforcement", "https://www.sec.gov/enforcement", None)>>

\* the PDFs of data/pdfs in sorted path order, each with the ExtractedCase
\* extract_case returns for it
PdfFiles ==
    <<[path |-> "data/pdfs/acme.pdf",
       ex |-> [case_number |-> None, complaint_date |-> Some("2024-01-01"),
               defendants |-> <<Entity(AcmeCapitalLLC, "company", "defendant", Some("us_de"))>>,
               relief_defendants |-> <<>>,
               fraud_types |-> <<"Ponzi Scheme">>,
               alleged_amount |-> None, source_url |-> None]],
      [path |-> "data/pdfs/terraform.pdf",
       ex |-> [case_number |-> Some("1:24-cv-01501"), complaint_date |-> None,
               defendants |-> <<Entity(TerraformUpper, "company", "defendant", None)>>,
               relief_defendants |-> <<>>,
               fraud_types |-> <<"Securities Fraud">>,
               alleged_amount |-> Some(Dec(4, 7)), source_url |-> None]]>>

\* os.listdir / Path.glob: the files present, in any order
Listings ==
    {l \in SeqsUpTo(1..Len(PdfFiles), Len(PdfFiles)) :
        \A i, j \in 1..Len(l) : i # j => l[i] # l[j]}

\* sorted(pdfs)
SortedListings == {l \in Listings : \A i, j \in 1..Len(l) : i < j => l[i] < l[j]}

\* the clock read n times from day d on
ReadingsFrom(n, d) == {c \in ClockReadings(n) : \A i \in 1..n : c[i] >= d}

LastReading(c, n, d) == IF n = 0 THEN d ELSE c[n]

\* scrapers/opensanctions.SanctionedEntity, companies of the OFAC feed
FeedPool ==
    {[name |-> AcmeLowerTrail, listing_date |-> Some("2024-06-01"),
      country |-> Some("ru"), source_url |-> None],
     [name |-> HyperFundLower, listing_date |-> None,
      country |-> None, source_url |-> Some("https://ofac.treasury.gov/x")]}

MaxFeed == 1

\* data/sec_enforcement.json, the entries of "companies"
CompanyPool ==
    {[company_name |-> <<"A","c","m","e"," ","C","a","p","i","t","a","l"," ","L","L","C"," ","(","C","I","K"," ","0","0","0","1","2","3","4","5","6","7",")">>, search_types |-> <<"other", "ponzi_scheme">>,
      file_date |-> "2024-06-01", state |-> "DE", cik |-> "0001234567"],
     [company_name |-> <<"H","y","p","e","r","F","u","n","d"," ","(","H","Y","P","R",")">>, search_types |-> <<"other">>,
      file_date |-> "", state |-> "", cik |-> ""],
     [company_name |-> <<" ","X","Y"," ","(","X","Y",")"," ">>, search_types |-> <<"revoked">>,
      file_date |-> "2024-01-15", state |-> "NV", cik |-> "0000000042"]}

MaxCompanies == 1

(***************************************************************************)
(* The scripts that update the table                                       *)
(***************************************************************************)
RECURSIVE KnownRecords(_)
KnownRecords(known) ==
    IF known = <<>> THEN <<>>
    ELSE ToFraudCases(Head(known), [i \in 1..Len(Head(known).defendants) |-> 1])
         \o KnownRecords(Tail(known))

\* the records of the PDFs of a listing, built with to_fraud_cases;
\* clock[i] is the day read while the i-th PDF is converted
RECURSIVE PdfRecords(_, _, _)
PdfRecords(listing, clock, i) ==
    IF i > Len(listing) THEN <<>>
    ELSE LET ex == PdfFiles[listing[i]].ex IN
         ToFraudCases(ex, [k \in 1..Len(ex.defendants) |-> clock[i]])
         \o PdfRecords(listing, clock, i + 1)

\* process_pdfs.process_all_pdfs
ProcessAllPdfs(listing, clock) == KnownRecords(KnownSecCases) \o PdfRecords(listing, clock, 1)

\* scripts/add_known_cases.main: the file after the run
AddKnownCases(file) ==
    LET df == ReadCsv(file)
        unique_records == FilterNew(KnownRecords(KnownSecCases), 1, ExistingNames(df), <<>>)
    IN  IF unique_records = <<>> THEN file
        ELSE ToCsv(SortByDateDesc(df \o unique_records))

RECURSIVE PdfRecordsWithUrl(_, _, _)
PdfRecordsWithUrl(listing, clock, i) ==
    IF i > Len(listing) THEN <<>>
    ELSE LET f == PdfFiles[listing[i]]
             ex == [f.ex EXCEPT !.source_url =
                       Some("https://www.sec.gov/files/litigation/complaints/2025/" \o f.path)]
         IN  ToFraudCases(ex, [k \in 1..Len(ex.defendants) |-> clock[i]])
             \o PdfRecordsWithUrl(listing, clock, i + 1)

\* scripts/extract_from_pdfs.main: the file after the run
ExtractFromPdfsScript(file, listing, clock) ==
    LET all == PdfRecordsWithUrl(listing, clock, 1)
        df == ReadCsv(file)
        unique_cases == FilterNew(all, 1, ExistingNames(df), <<>>)
    IN  IF all = <<>> \/ unique_cases = <<>> THEN file
        ELSE ToCsv(SortByDateDesc(df \o unique_cases))

RECURSIVE ExtractAllRecords(_, _, _)
ExtractAllRecords(listing, clock, i) ==
    IF i > Len(listing) THEN <<>>
    ELSE LET f == PdfFiles[listing[i]] IN
         ExtractToFraudCases(f.ex, f.path, Days[clock[i]])
         \o ExtractAllRecords(listing, clock, i + 1)

\* extract_all_pdfs.main: the file after the run (the table is not re-sorted)
ExtractAllPdfsMain(file, listing, clock) ==
    LET existing_df == ReadCsv(file)
        new == FilterNew(ExtractAllRecords(listing, clock, 1), 1,
                         ExistingNames(existing_df), <<>>)
    IN  IF listing = <<>> \/ new = <<>> THEN file
        ELSE ToCsv(existing_df \o new)

(***************************************************************************)
(* combine_all_sources.main                                                *)
(***************************************************************************)
\* combine_all_sources.extract_from_pdfs
RECURSIVE ExtractFromPdfs(_, _, _)
ExtractFromPdfs(listing, clock, i) ==
    IF i > Len(listing) THEN <<>>
    ELSE CombineCasesOfPdf(PdfFiles[listing[i]].ex, Days[clock[i]])
         \o ExtractFromPdfs(listing, clock, i + 1)

\* SanctionedEntity.to_fraud_case_dict
ToFraudCaseDict(e, now) ==
    Rec(e.name, OrElse(e.listing_date, now), "OFAC Sanctions", None, e.country,
        "OpenSanctions/OFAC",
        OrElse(e.source_url, "https://www.opensanctions.org/datasets/us_ofac_press_releases/"),
        None)

\* download_ofac_data: OpenSanctionsClient.to_fraud_cases over the feed
OfacCases(feed, clock) == [i \in 1..Len(feed) |-> ToFraudCaseDict(feed[i], Days[clock[i]])]

\* the order in which main extends all_cases
SourceOrder(existing, pdf_cases, ofac_cases, sec_cases) ==
    existing \o pdf_cases \o ofac_cases \o sec_cases

InitDb ==
    /\ db = None
    /\ today = 1
    /\ mainPc = "idle"
    /\ all_cases = <<>>
    /\ DedupIdle
    /\ BuildIdle
    /\ ParseIdle
    /\ RunsIdle
    /\ OtherIdle
    /\ ExtractIdle

\* The scripts are command-line programs; here they are run one after another.

\* python process_pdfs.py
RunProcessPdfs ==
    /\ mainPc \in {"idle", "done"}
    /\ \E listing \in Listings : \E clock \in ReadingsFrom(Len(listing), today) :
          /\ db' = AddToDatabase(db, ProcessAllPdfs(listing, clock))
          /\ today' = LastReading(clock, Len(listing), today)
    /\ UNCHANGED <<mainPc, all_cases, dedupVars, buildVars, parseVars, runVars, extractVars, otherVars>>

\* python scripts/add_known_cases.py
RunAddKnownCases ==
    /\ mainPc \in {"idle", "done"}
    /\ db' = AddKnownCases(db)
    /\ UNCHANGED <<today, mainPc, all_cases, dedupVars, buildVars, parseVars, runVars, extractVars, otherVars>>

\* python scripts/extract_from_pdfs.py
RunExtractFromPdfsScript ==
    /\ mainPc \in {"idle", "done"}
    /\ \E listing \in SortedListings : \E clock \in ReadingsFrom(Len(listing), today) :
          /\ db' = ExtractFromPdfsScript(db, listing, clock)
          /\ today' = LastReading(clock, Len(listing), today)
    /\ UNCHANGED <<mainPc, all_cases, dedupVars, buildVars, parseVars, runVars, extractVars, otherVars>>

\* python extract_all_pdfs.py
RunExtractAllPdfs ==
    /\ mainPc \in {"idle", "done"}
    /\ \E listing \in SortedListings : \E clock \in ReadingsFrom(Len(listing), today) :
          /\ db' = ExtractAllPdfsMain(db, listing, clock)
          /\ today' = LastReading(clock, Len(listing), today)
    /\ UNCHANGED <<mainPc, all_cases, dedupVars, buildVars, parseVars, runVars, extractVars, otherVars>>

\* python scripts/import_sec_enforcement.py
RunImportSecEnforcement ==
    /\ mainPc \in {"idle", "done"}
    /\ \E companies \in SeqsUpTo(CompanyPool, MaxCompanies) :
          db' = ImportSecEnforcement(db, companies)
    /\ UNCHANGED <<today, mainPc, all_cases, dedupVars, buildVars, parseVars, runVars, extractVars, otherVars>>

\* the count of the records left instead of the records removed
RemovedCountKept(before_count, after_count) == after_count

\* main, step 5: the count printed as "Removed"
RemovedCount(before_count, after_count) == before_count - after_count

\* main, step 1: all_cases.extend(existing_df.to_dict('records'))
MainLoad ==
    /\ mainPc \in {"idle", "done"}
    /\ all_cases' = SourceOrder(ReadCsv(db), <<>>, <<>>, <<>>)
    /\ removed' = None
    /\ mainPc' = "loaded"
    /\ UNCHANGED <<db, today, dedupVars, buildVars, parseVars, runVars, extractVars, exceptReport>>

\* main, step 2: all_cases.extend(extract_from_pdfs())
MainExtractPdfs ==
    /\ mainPc = "loaded"
    /\ \E listing \in Listings : \E clock \in ReadingsFrom(Len(listing), today) :
          /\ all_cases' = SourceOrder(all_cases, ExtractFromPdfs(listing, clock, 1), <<>>, <<>>)
          /\ today' = LastReading(clock, Len(listing), today)
    /\ mainPc' = "extracted"
    /\ UNCHANGED <<db, dedupVars, buildVars, parseVars, runVars, extractVars, otherVars>>

\* main, step 3: all_cases.extend(download_opensanctions())
MainDownload ==
    /\ mainPc = "extracted"
    /\ \E feed \in SeqsUpTo(FeedPool, MaxFeed) : \E clock \in ReadingsFrom(Len(feed), today) :
          /\ all_cases' = SourceOrder(all_cases, <<>>, OfacCases(feed, clock), <<>>)
          /\ today' = LastReading(clock, Len(feed), today)
    /\ mainPc' = "downloaded"
    /\ UNCHANGED <<db, dedupVars, buildVars, parseVars, runVars, extractVars, otherVars>>

\* main, step 4: all_cases.extend(get_sec_known_cases())
MainKnown ==
    /\ mainPc = "downloaded"
    /\ all_cases' = SourceOrder(all_cases, <<>>, <<>>, SecKnownCases)
    /\ mainPc' = "combined"
    /\ UNCHANGED <<db, today, dedupVars, buildVars, parseVars, runVars, extractVars, otherVars>>

\* main, step 5: all_cases = deduplicate_cases(all_cases)
\* and print(f"Removed: {before_count - after_count} duplicates")
MainDedup ==
    /\ mainPc = "combined"
    /\ all_cases' = DeduplicateCases(all_cases)
    /\ removed' = Some(RemovedCount(Len(all_cases), Len(all_cases')))
    /\ mainPc' = "deduplicated"
    /\ UNCHANGED <<db, today, dedupVars, buildVars, parseVars, runVars, extractVars, exceptReport>>

\* the table is written before the known SEC cases are merged
MainSaveEarly ==
    /\ mainPc = "downloaded"
    /\ db' = ToCsv(SortByDateDesc(all_cases))
    /\ mainPc' = "done"
    /\ UNCHANGED <<all_cases, today, dedupVars, buildVars, parseVars, runVars, extractVars, otherVars>>

\* main, step 6: sort by case_date descending and write the CSV
MainSave ==
    /\ mainPc = "deduplicated"
    /\ db' = ToCsv(SortByDateDesc(all_cases))
    /\ mainPc' = "done"
    /\ UNCHANGED <<all_cases, today, dedupVars, buildVars, parseVars, runVars, extractVars, otherVars>>

NextDb ==
    \/ RunProcessPdfs
    \/ RunAddKnownCases
    \/ RunExtractFromPdfsScript
    \/ RunExtractAllPdfs
    \/ RunImportSecEnforcement
    \/ MainLoad
    \/ MainExtractPdfs
    \/ MainDownload
    \/ MainKnown
    \/ MainDedup
    \/ MainSave

SpecDb == InitDb /\ [][NextDb]_vars

(***************************************************************************)
(* Two independent rebuilds from the same inputs                           *)
(***************************************************************************)
\* combine_all_sources.main as a whole: the table it writes
CombineFrom(existing_cases, listing, pdfClock, feed, feedClock) ==
    ToCsv(SortByDateDesc(DeduplicateCases(
        SourceOrder(existing_cases, ExtractFromPdfs(listing, pdfClock, 1),
                    OfacCases(feed, feedClock), SecKnownCases))))

CombineMain(file, listing, pdfClock, feed, feedClock) ==
    CombineFrom(ReadCsv(file), listing, pdfClock, feed, feedClock)

ListingsOf(files) ==
    {l \in Listings : Len(l) = Cardinality(files) /\ \A i \in 1..Len(l) : l[i] \in files}

\* a table an earlier rebuild over the OFAC feed left behind
EarlierTable ==
    ToCsv(<<ToFraudCaseDict([name |-> AcmeLowerTrail, listing_date |-> Some("2024-06-01"),
                             country |-> Some("ru"), source_url |-> None], "")>>)

\* the update scripts alone, run one after another on a table that is
\* missing or was left behind by an earlier rebuild
InitUpdate ==
    /\ db \in {None, EarlierTable}
    /\ today = 1
    /\ mainPc = "idle"
    /\ all_cases = <<>>
    /\ DedupIdle
    /\ BuildIdle
    /\ ParseIdle
    /\ RunsIdle
    /\ OtherIdle
    /\ ExtractIdle

NextUpdate ==
    \/ RunProcessPdfs
    \/ RunAddKnownCases
    \/ RunExtractFromPdfsScript
    \/ RunExtractAllPdfs
    \/ RunImportSecEnforcement

SpecUpdate == InitUpdate /\ [][NextUpdate]_vars

InitRuns ==
    /\ db \in {None, EarlierTable}
    /\ today = 1
    /\ mainPc = "idle"
    /\ all_cases = <<>>
    /\ sources \in {Some(x) : x \in [files : SUBSET (1..Len(PdfFiles)),
                                      feed : SeqsUpTo(FeedPool, MaxFeed)]}
    /\ tables = Some([r \in 1..2 |-> None])
    /\ DedupIdle
    /\ BuildIdle
    /\ ParseIdle
    /\ ExtractIdle
    /\ OtherIdle

\* run r of python combine_all_sources.py, writing to its own copy of the table
RunPipeline(r) ==
    /\ tables[1][r] = None
    /\ \E listing \in ListingsOf(sources[1].files) :
       \E pdfClock \in ReadingsFrom(Len(listing), today) :
       \E feedClock \in ReadingsFrom(Len(sources[1].feed),
                                     LastReading(pdfClock, Len(listing), today)) :
          /\ tables' = Some([tables[1] EXCEPT ![r] =
                 CombineMain(db, listing, pdfClock, sources[1].feed, feedClock)])
          /\ today' = LastReading(feedClock, Len(sources[1].feed),
                                  LastReading(pdfClock, Len(listing), today))
    /\ UNCHANGED <<db, mainPc, all_cases, sources, dedupVars, buildVars, parseVars, extractVars, otherVars>>

FirstRun == RunPipeline(1)

SecondRun == RunPipeline(2)

NextRuns == FirstRun \/ SecondRun

SpecRuns == InitRuns /\ [][NextRuns]_vars

(***************************************************************************)
(* The loops over the PDFs of a directory:                                 *)
(* combine_all_sources.extract_from_pdfs, extract_all_pdfs.main with       *)
(* extract_to_fraud_cases, and process_pdfs.process_all_pdfs               *)
(***************************************************************************)
\* what a file of the directory is: a PDF that extract_case converts, a
\* damaged PDF on which extract_case raises, or an entry that open() cannot
\* open (a dangling link, a file without read permission)
DocKinds == {"ok", "damaged", "unreadable"}

BatchFunctions == {"extract_from_pdfs", "extract_all_pdfs", "process_all_pdfs"}

MaxBatchDocs == 3

BatchDocs == SeqsUpTo([file : 1..Len(PdfFiles), kind : DocKinds], MaxBatchDocs)

\* the state of a loop: docs[i] is the next file, cases the list built so
\* far, per_doc[k] what the k-th file added to it, names the lower-cased
\* names extract_all_pdfs.main has seen, day the last reading of the clock
StartBatch(fn, docs) ==
    [fn |-> fn, docs |-> docs, i |-> 1, pc |-> "loop",
     cases |-> IF fn = "process_all_pdfs" THEN KnownRecords(KnownSecCases) ELSE <<>>,
     per_doc |-> <<>>, names |-> {}, day |-> 1]

\* the loop went through one file, which added the records recs
Advance(b, recs, names, day) ==
    [b EXCEPT !.i = @ + 1, !.cases = @ \o recs, !.per_doc = Append(@, recs),
              !.names = names, !.day = day]

\* extract_case(pdf_path) raises for a file that fitz cannot open or read
ExtractCaseRaises(doc) == doc.kind # "ok"

\* one iteration of the loop of extract_from_pdfs: try ... except Exception
ExtractFromPdfsStep(b, day) ==
    IF ExtractCaseRaises(b.docs[b.i]) THEN Advance(b, <<>>, b.names, day)
    ELSE Advance(b, CombineCasesOfPdf(PdfFiles[b.docs[b.i].file].ex, Days[day]),
                 b.names, day)

\* extract_to_fraud_cases(pdf_path, extractor): [] when extract_case raised
ExtractToFraudCasesOf(doc, now) ==
    IF ExtractCaseRaises(doc) THEN <<>>
    ELSE ExtractToFraudCases(PdfFiles[doc.file].ex, PdfFiles[doc.file].path, now)

NamesWith(names, recs) == names \cup {Lower(recs[k].company_name) : k \in 1..Len(recs)}

\* the records of one file that extract_all_pdfs.main keeps
NewCasesOf(b, recs) == FilterNew(recs, 1, b.names, <<>>)

\* one iteration of the loop of extract_all_pdfs.main
ExtractAllPdfsStep(b, day) ==
    Advance(b, NewCasesOf(b, ExtractToFraudCasesOf(b.docs[b.i], Days[day])),
            NamesWith(b.names, ExtractToFraudCasesOf(b.docs[b.i], Days[day])), day)

\* one iteration of the loop of process_all_pdfs: open(pdf_file, "rb") stands
\* before the try, so its OSError leaves the function
ProcessAllPdfsStep(b, day) ==
    IF b.docs[b.i].kind = "unreadable" THEN [b EXCEPT !.pc = "raised"]
    ELSE IF ExtractCaseRaises(b.docs[b.i]) THEN Advance(b, <<>>, b.names, day)
    ELSE Advance(b, ToFraudCases(PdfFiles[b.docs[b.i].file].ex,
                                 [k \in 1..Len(PdfFiles[b.docs[b.i].file].ex.defendants) |-> day]),
                 b.names, day)

InitBatch ==
    /\ batch \in {Some(StartBatch(fn, docs)) : fn \in BatchFunctions, docs \in BatchDocs}
    /\ DedupIdle
    /\ BuildIdle
    /\ ParseIdle
    /\ DbIdle
    /\ RunsIdle
    /\ ExtractIdle
    /\ SaveIdle
    /\ RaceIdle
    /\ ReportIdle
    /\ ApiIdle

InLoop(fn) ==
    /\ batch # None
    /\ batch[1].fn = fn
    /\ batch[1].pc = "loop"
    /\ batch[1].i <= Len(batch[1].docs)

LoopExtractFromPdfs ==
    /\ InLoop("extract_from_pdfs")
    /\ \E day \in batch[1].day..Len(Days) : batch' = Some(ExtractFromPdfsStep(batch[1], day))
    /\ UNCHANGED <<dedupVars, buildVars, parseVars, dbVars, runVars, extractVars, exceptBatch>>

LoopExtractAllPdfs ==
    /\ InLoop("extract_all_pdfs")
    /\ \E day \in batch[1].day..Len(Days) : batch' = Some(ExtractAllPdfsStep(batch[1], day))
    /\ UNCHANGED <<dedupVars, buildVars, parseVars, dbVars, runVars, extractVars, exceptBatch>>

LoopProcessAllPdfs ==
    /\ InLoop("process_all_pdfs")
    /\ \E day \in batch[1].day..Len(Days) : batch' = Some(ProcessAllPdfsStep(batch[1], day))
    /\ UNCHANGED <<dedupVars, buildVars, parseVars, dbVars, runVars, extractVars, exceptBatch>>

\* the loop is over: return cases
ReturnCases ==
    /\ batch # None
    /\ batch[1].pc = "loop"
    /\ batch[1].i > Len(batch[1].docs)
    /\ batch' = Some([batch[1] EXCEPT !.pc = "returned"])
    /\ UNCHANGED <<dedupVars, buildVars, parseVars, dbVars, runVars, extractVars, exceptBatch>>

NextBatch == LoopExtractFromPdfs \/ LoopExtractAllPdfs \/ LoopProcessAllPdfs \/ ReturnCases

SpecBatch == InitBatch /\ [][NextBatch]_vars

(***************************************************************************)
(* combine_all_sources.main, step 6 in detail: df.to_csv(output_path)      *)
(* opens data/fraudulent_companies.csv for writing, which empties it, and  *)
(* writes the rows through a buffer that is flushed as it fills and on     *)
(* close.  db is what a reader of the file finds.                          *)
(***************************************************************************)
InitSave ==
    /\ db \in {None, EarlierTable}
    /\ today = 1
    /\ mainPc = "deduplicated"
    /\ all_cases \in
          {DeduplicateCases(SourceOrder(ReadCsv(db),
                                        ExtractFromPdfs(listing, [i \in 1..Len(listing) |-> 1], 1),
                                        OfacCases(feed, [i \in 1..Len(feed) |-> 1]),
                                        SecKnownCases)) :
              listing \in Listings, feed \in SeqsUpTo(FeedPool, MaxFeed)}
    /\ writer = None
    /\ DedupIdle
    /\ BuildIdle
    /\ ParseIdle
    /\ RunsIdle
    /\ ExtractIdle
    /\ BatchIdle
    /\ RaceIdle
    /\ ReportIdle
    /\ ApiIdle

\* open(output_path, "w"): the file is created or truncated
OpenCsv ==
    /\ mainPc = "deduplicated"
    /\ writer = None
    /\ writer' = Some([published |-> db, rows |-> ToCsv(SortByDateDesc(all_cases))[1],
                       written |-> 0, pc |-> "open"])
    /\ db' = Some(<<>>)
    /\ UNCHANGED <<today, mainPc, all_cases, dedupVars, buildVars, parseVars, runVars,
                   extractVars, exceptSave>>

\* the buffer is flushed: the rows up to some row reach the file
FlushRows ==
    /\ writer # None
    /\ writer[1].pc = "open"
    /\ \E n \in (writer[1].written + 1)..Len(writer[1].rows) :
          /\ writer' = Some([writer[1] EXCEPT !.written = n])
          /\ db' = Some(SubSeq(writer[1].rows, 1, n))
    /\ UNCHANGED <<today, mainPc, all_cases, dedupVars, buildVars, parseVars, runVars,
                   extractVars, exceptSave>>

\* the file is closed: whatever is left in the buffer reaches the file
CloseCsv ==
    /\ writer # None
    /\ writer[1].pc = "open"
    /\ writer' = Some([writer[1] EXCEPT !.written = Len(writer[1].rows), !.pc = "closed"])
    /\ db' = Some(writer[1].rows)
    /\ mainPc' = "done"
    /\ UNCHANGED <<today, all_cases, dedupVars, buildVars, parseVars, runVars,
                   extractVars, exceptSave>>

\* the run is interrupted while the file is open: nothing more is written
InterruptSave ==
    /\ writer # None
    /\ writer[1].pc = "open"
    /\ writer' = Some([writer[1] EXCEPT !.pc = "interrupted"])
    /\ UNCHANGED <<db, today, mainPc, all_cases, dedupVars, buildVars, parseVars, runVars,
                   extractVars, exceptSave>>

NextSave == OpenCsv \/ FlushRows \/ CloseCsv \/ InterruptSave

SpecSave == InitSave /\ [][NextSave]_vars

(***************************************************************************)
(* python combine_all_sources.py and python process_pdfs.py started at the *)
(* same time on the same data/fraudulent_companies.csv.  Each reads the    *)
(* file once and writes it once; nothing in the code keeps the two apart.  *)
(***************************************************************************)
DayOne(n) == [i \in 1..n |-> 1]

\* what each run is given, and what it has read: None before its read
StartRuns(file, listing, feed, pdfs) ==
    [start |-> file, listing |-> listing, feed |-> feed, pdfs |-> pdfs,
     main |-> [pc |-> "start", existing |-> <<>>],
     add |-> [pc |-> "start", df |-> <<>>]]

\* the table main writes from the rows it read
MainTable(r, existing_cases) ==
    CombineFrom(existing_cases, r.listing, DayOne(Len(r.listing)), r.feed, DayOne(Len(r.feed)))

\* the new_cases process_pdfs.main passes to add_to_database
AddCases(r) == ProcessAllPdfs(r.pdfs, DayOne(Len(r.pdfs)))

InitRace ==
    /\ db \in {None, EarlierTable}
    /\ runs \in {Some(StartRuns(db, listing, feed, pdfs)) :
                    listing \in SortedListings, feed \in SeqsUpTo(FeedPool, MaxFeed),
                    pdfs \in SortedListings}
    /\ today = 1
    /\ mainPc = "idle"
    /\ all_cases = <<>>
    /\ DedupIdle
    /\ BuildIdle
    /\ ParseIdle
    /\ RunsIdle
    /\ ExtractIdle
    /\ BatchIdle
    /\ SaveIdle
    /\ ReportIdle
    /\ ApiIdle

\* main, step 1: existing_df = load_existing_database()
RaceMainLoad ==
    /\ runs # None
    /\ runs[1].main.pc = "start"
    /\ runs' = Some([runs[1] EXCEPT !.main = [pc |-> "loaded", existing |-> ReadCsv(db)]])
    /\ UNCHANGED <<dbVars, dedupVars, buildVars, parseVars, runVars, extractVars,
                   exceptRace>>

\* main, steps 2 to 6: the sources are merged with the rows read, and written
RaceMainSave ==
    /\ runs # None
    /\ runs[1].main.pc = "loaded"
    /\ db' = MainTable(runs[1], runs[1].main.existing)
    /\ runs' = Some([runs[1] EXCEPT !.main.pc = "done"])
    /\ UNCHANGED <<today, mainPc, all_cases, dedupVars, buildVars, parseVars, runVars,
                   extractVars, exceptRace>>

\* add_to_database: df = pd.read_csv(db_path)
RaceAddLoad ==
    /\ runs # None
    /\ runs[1].add.pc = "start"
    /\ runs' = Some([runs[1] EXCEPT !.add = [pc |-> "loaded", df |-> ReadCsv(db)]])
    /\ UNCHANGED <<dbVars, dedupVars, buildVars, parseVars, runVars, extractVars,
                   exceptRace>>

\* add_to_database: the rows that are new to df are appended and written
RaceAddSave ==
    /\ runs # None
    /\ runs[1].add.pc = "loaded"
    /\ db' = AddFrom(runs[1].add.df, db, AddCases(runs[1]))
    /\ runs' = Some([runs[1] EXCEPT !.add.pc = "done"])
    /\ UNCHANGED <<today, mainPc, all_cases, dedupVars, buildVars, parseVars, runVars,
                   extractVars, exceptRace>>

NextRace == RaceMainLoad \/ RaceMainSave \/ RaceAddLoad \/ RaceAddSave

SpecRace == InitRace /\ [][NextRace]_vars

(***************************************************************************)
(* trade/utils/api_client.APIClient._make_request                          *)
(***************************************************************************)
\* Config.MAX_RETRIES
MAX_RETRIES == 3

\* what one call of session.request can come to
Outcomes ==
    {"ok",                 \* 2xx with a JSON body
     "no_content",         \* 2xx with an empty body
     "invalid_json",       \* 2xx with a body that is not JSON
     "timeout",            \* requests.exceptions.Timeout
     "rate_limited",       \* 429, Retry-After absent or a number of seconds
     "rate_limited_date",  \* 429, Retry-After an HTTP date
     "client_error",       \* 4xx other than 429
     "server_error",       \* 5xx
     "connection_error"}   \* any other requests.exceptions.RequestException

\* the call after url was built: no attempt made yet
StartRequest ==
    [attempt |-> 0, requests |-> 0, seen |-> <<>>, pc |-> "request", result |-> None]

\* session.request was called once more and came to outcome o
Requested(a, o) == [a EXCEPT !.requests = @ + 1, !.seen = Append(@, o)]

\* return <value>
Return(a, value) == [a EXCEPT !.pc = "returned", !.result = value]

\* an exception that no except clause of the loop catches
Raise(a, ex) == [a EXCEPT !.pc = "raised", !.result = Some(ex)]

\* continue
Continue(a) == [a EXCEPT !.attempt = @ + 1]

\* if attempt < Config.MAX_RETRIES - 1: sleep, continue; else return None
RetryOrNone(a) ==
    IF a.attempt < MAX_RETRIES - 1 THEN Continue(a) ELSE Return(a, None)

\* the body of the for loop for one outcome of session.request: the states
\* the call can be in afterwards
Handled(a, o) ==
    CASE o = "ok" -> {Return(a, Some("json"))}
      [] o = "no_content" -> {Return(a, Some("{}"))}
      \* response.json() raises requests' JSONDecodeError, which is a
      \* RequestException in requests 2.27 and later and a plain ValueError
      \* before
      [] o = "invalid_json" -> {RetryOrNone(a), Raise(a, "ValueError")}
      [] o = "timeout" -> {RetryOrNone(a)}
      \* int(response.headers.get('Retry-After', 60)), time.sleep, continue
      [] o = "rate_limited" -> {Continue(a)}
      \* int() of an HTTP date raises ValueError
      [] o = "rate_limited_date" -> {Raise(a, "ValueError")}
      [] o = "client_error" -> {Return(a, None)}
      [] o = "server_error" -> {RetryOrNone(a)}
      [] o = "connection_error" -> {RetryOrNone(a)}

InitApi ==
    /\ api = None
    /\ DedupIdle
    /\ BuildIdle
    /\ ParseIdle
    /\ DbIdle
    /\ RunsIdle
    /\ ExtractIdle
    /\ BatchIdle
    /\ SaveIdle
    /\ RaceIdle
    /\ ReportIdle

\* client.get(...) or client.post(...)
CallMakeRequest ==
    /\ api = None
    /\ api' = Some(StartRequest)
    /\ UNCHANGED <<dedupVars, buildVars, parseVars, dbVars, runVars, extractVars, exceptApi>>

\* one pass of for attempt in range(Config.MAX_RETRIES)
Attempt ==
    /\ api # None
    /\ api[1].pc = "request"
    /\ api[1].attempt < MAX_RETRIES
    /\ \E o \in Outcomes : \E after \in Handled(Requested(api[1], o), o) :
          api' = Some(after)
    /\ UNCHANGED <<dedupVars, buildVars, parseVars, dbVars, runVars, extractVars, exceptApi>>

\* the loop is exhausted: return None
LoopExhausted ==
    /\ api # None
    /\ api[1].pc = "request"
    /\ api[1].attempt >= MAX_RETRIES
    /\ api' = Some(Return(api[1], None))
    /\ UNCHANGED <<dedupVars, buildVars, parseVars, dbVars, runVars, extractVars, exceptApi>>

NextApi == CallMakeRequest \/ Attempt \/ LoopExhausted

SpecApi == InitApi /\ [][NextApi]_vars

(***************************************************************************)
(* Merge claims                                                            *)
(***************************************************************************)
\* the dedup key as the specification states it: trimmed, then case-folded
TrimFold(name) == Lower(Strip(name))

KeyCount(rs, k) == Cardinality({i \in 1..Len(rs) : TrimFold(rs[i].company_name) = k})

FirstIndexOf(rs, k) ==
    CHOOSE i \in 1..Len(rs) :
        /\ TrimFold(rs[i].company_name) = k
        /\ \A j \in 1..(i - 1) : TrimFold(rs[j].company_name) # k

\* C1: the output of deduplicate_cases holds no two records with the same
\* trimmed, lower-cased company_name, and every normalized key of the input
\* occurs exactly once in the output.
C1_UniqueNormalizedNames ==
    unique # None =>
        /\ \A i, j \in 1..Len(unique[1]) :
              i # j => TrimFold(unique[1][i].company_name)
                         # TrimFold(unique[1][j].company_name)
        /\ \A k \in 1..Len(cases) :
              KeyCount(unique[1], TrimFold(cases[k].company_name)) = 1

C1_Witness ==
    /\ unique # None
    /\ Len(cases) = 3
    /\ cases[1].company_name = AcmeCapitalLLC
    /\ cases[2].company_name = AcmeLowerTrail
    /\ cases[3].company_name = AcmeUpperLead
    /\ Len(unique[1]) = 1

\* C2: the merge is first-source-wins without field-level merge: for every
\* normalized key the output holds exactly the first input record carrying the
\* key, unchanged, and merging A = "Acme Capital LLC" then B = "acme capital llc "
\* yields the single record A.
C2_FirstSourceWins ==
    unique # None =>
        /\ \A k \in 1..Len(cases) :
              LET key == TrimFold(cases[k].company_name) IN
              /\ KeyCount(unique[1], key) = 1
              /\ \E i \in 1..Len(unique[1]) :
                    unique[1][i] = cases[FirstIndexOf(cases, key)]
        /\ \A i \in 1..Len(unique[1]) : \E k \in 1..Len(cases) : unique[1][i] = cases[k]
        /\ cases = <<SourceARec(AcmeCapitalLLC), SourceBRec(AcmeLowerTrail)>>
              => unique[1] = <<SourceARec(AcmeCapitalLLC)>>

C2_Witness ==
    /\ cases = <<SourceARec(AcmeCapitalLLC), SourceBRec(AcmeLowerTrail)>>
    /\ unique = Some(<<SourceARec(AcmeCapitalLLC)>>)

\* C3: dedup idempotence: deduplicate_cases(B + B) = deduplicate_cases(B) and
\* deduplicate_cases(deduplicate_cases(B)) = deduplicate_cases(B), same records
\* in the same order.
C3_DedupIdempotent ==
    /\ (unique # None /\ uniqueTwice # None) => uniqueTwice = unique
    /\ uniqueAgain # None => uniqueAgain = unique

C3_Witness ==
    /\ unique # None /\ uniqueTwice # None /\ uniqueAgain # None
    /\ Len(cases) = 3
    /\ Len(unique[1]) = 2
    /\ uniqueTwice = unique
    /\ uniqueAgain = unique

(***************************************************************************)
(* Record-builder claims                                                   *)
(***************************************************************************)
CaseEntities(ex) == ex.defendants \o ex.relief_defendants

Surfaced(e) ==
    e.entity_type = "company" /\ e.role \in {"defendant", "relief_defendant"}

CountNamed(rs, n) == Cardinality({i \in 1..Len(rs) : rs[i].company_name = n})

CountSurfaced(es, n) ==
    Cardinality({i \in 1..Len(es) : es[i].name = n /\ Surfaced(es[i])})

\* C7: the builder emits exactly one record per company entity whose role is
\* defendant or relief_defendant, and none for individuals, for related
\* entities, or for a case without company entities.
C7_OneRecordPerSurfacedCompany ==
    built # None =>
        LET es == CaseEntities(extracted[1]) IN
        /\ \A i \in 1..Len(es) :
              CountNamed(built[1].records, es[i].name) = CountSurfaced(es, es[i].name)
        /\ \A j \in 1..Len(built[1].records) :
              \E i \in 1..Len(es) : es[i].name = built[1].records[j].company_name

\* C8: a record built for a relief defendant has penalty_amount None, a record
\* built for a true defendant carries the case-level alleged_amount.
C8_PenaltyByRole ==
    built # None =>
        LET es == CaseEntities(extracted[1]) IN
        \A j \in 1..Len(built[1].records), i \in 1..Len(es) :
            built[1].records[j].company_name = es[i].name =>
                /\ es[i].role = "relief_defendant"
                      => built[1].records[j].penalty_amount = None
                /\ es[i].role = "defendant"
                      => built[1].records[j].penalty_amount
                            = extracted[1].alleged_amount

C8_Witness ==
    /\ built # None
    /\ built[1].builder = "extract_to_fraud_cases"
    /\ extracted[1].alleged_amount = Some(Dec(5, 7))
    /\ Len(built[1].records) = 2
    /\ built[1].records[1].company_name = HyperFund
    /\ built[1].records[1].penalty_amount = Some(Dec(5, 7))
    /\ built[1].records[2].company_name = ReliefCo
    /\ built[1].records[2].penalty_amount = None

\* C9: all records built from one ExtractedCase carry the same case_number,
\* fraud_type (the first element of fraud_types), case_date and source_url.
C9_SharedCaseFields ==
    built # None =>
        /\ \A j \in 1..Len(built[1].records) :
              /\ built[1].records[j].case_number = extracted[1].case_number
              /\ extracted[1].fraud_types # <<>>
                    => built[1].records[j].fraud_type = extracted[1].fraud_types[1]
        /\ \A j, k \in 1..Len(built[1].records) :
              /\ built[1].records[j].case_number = built[1].records[k].case_number
              /\ built[1].records[j].fraud_type = built[1].records[k].fraud_type
              /\ built[1].records[j].case_date = built[1].records[k].case_date
              /\ built[1].records[j].source_url = built[1].records[k].source_url

(***************************************************************************)
(* Amount-parser claims                                                    *)
(***************************************************************************)
\* the power of ten the magnitude words of a text call for
MagnitudeOf(text) ==
    IF Contains(Lower(text), Billion) THEN 9
    ELSE IF Contains(Lower(text), Million) THEN 6 ELSE 0

\* C10: after stripping "," and "$", parse multiplies the numeric literal by
\* 1,000,000 when the text contains "million" and by 1,000,000,000 when it
\* contains "billion" (billion first); parse("$4.5 million") = 4,500,000,
\* parse("$1,700,000,000") = 1,700,000,000 and parse("$50,000") = 50,000.
C10_MagnitudeMultiplier ==
    parsed # None =>
        /\ amount_str[1] = <<"$","4",".","5"," ","m","i","l","l","i","o","n">> => parsed[1] = Some(Dec(45, 5))
        /\ amount_str[1] = <<"$","1",",","7","0","0",",","0","0","0",",","0","0","0">> => parsed[1] = Some(Dec(17, 8))
        /\ amount_str[1] = <<"$","5","0",",","0","0","0">> => parsed[1] = Some(Dec(5, 4))
        /\ \A p \in AmountPrefixes, n \in AmountLiterals, x \in AmountSuffixes :
              amount_str[1] = p \o n \o x =>
                  parsed[1] = Some(Times10(PyFloat(Remove(n, ","))[1],
                                           MagnitudeOf(amount_str[1])))

\* C13: parse returns None for every input that is empty or holds no number
\* (no digit at all, e.g. "not a number"), and returns for every input.
C13_NonNumericGivesNone ==
    (parsed # None /\ \A i \in 1..Len(amount_str[1]) : amount_str[1][i] \notin DigitChars)
        => parsed[1] = None

(***************************************************************************)
(* Jurisdiction-normalizer claims                                          *)
(***************************************************************************)
\* C14: normalize returns the code of the first table entry, in declaration
\* order, whose key is a substring of the lower-cased input; in particular
\* "British Virgin Islands" gives "vg", "Cayman Islands" gives "ky" and
\* "Delaware" gives "us_de".
C14_FirstTableEntryWins ==
    jur_code # None =>
        /\ \A k \in 1..Len(JurisdictionMapping) :
              (/\ Contains(Lower(jur_in[1]), JurisdictionMapping[k][1])
               /\ \A h \in 1..(k - 1) :
                     ~Contains(Lower(jur_in[1]), JurisdictionMapping[h][1]))
                  => jur_code[1] = JurisdictionMapping[k][2]
        /\ jur_in[1] = <<"B","r","i","t","i","s","h"," ","V","i","r","g","i","n"," ","I","s","l","a","n","d","s">> => jur_code[1] = <<"v","g">>
        /\ jur_in[1] = <<"C","a","y","m","a","n"," ","I","s","l","a","n","d","s">> => jur_code[1] = <<"k","y">>
        /\ jur_in[1] = <<"D","e","l","a","w","a","r","e">> => jur_code[1] = <<"u","s","_","d","e">>

\* two keys occur and the one declared first in the table comes later in the text
C14_Witness ==
    /\ jur_code = Some(<<"u","s","_","d","e">>)
    /\ jur_in = Some(<<"N","e","v","a","d","a"," ","a","n","d"," ","D","e","l","a","w","a","r","e">>)

NoKeyIn(s) ==
    \A k \in 1..Len(JurisdictionMapping) : ~Contains(Lower(s), JurisdictionMapping[k][1])

FirstFive(s) == IF Len(s) > 5 THEN SubSeq(s, 1, 5) ELSE s

\* C15 as stated: when no table key is a substring of the input, normalize
\* returns the first 5 characters of the lower-cased input, or all of it if
\* it is shorter.
C15_FallbackOfLowercased ==
    (jur_code # None /\ NoKeyIn(jur_in[1])) => jur_code[1] = FirstFive(Lower(jur_in[1]))

\* C15, amended: when no table key is a substring of the input, normalize
\* returns the first 5 characters of the lower-cased input with surrounding
\* whitespace removed, or all of it if it is shorter; "Ruritania" gives "rurit".
C15_FallbackOfTrimmedLowercased ==
    jur_code # None =>
        /\ NoKeyIn(jur_in[1]) => jur_code[1] = FirstFive(Strip(Lower(jur_in[1])))
        /\ jur_in[1] = <<"R","u","r","i","t","a","n","i","a">> => jur_code[1] = <<"r","u","r","i","t">>

\* the fallback has cut a padded input that holds no table key
C15_Witness ==
    /\ jur_code = Some(<<"r","u","r","i","t">>)
    /\ jur_in = Some(<<" ","R","u","r","i","t","a","n","i","a">>)

(***************************************************************************)
(* Fraud-classifier claims                                                 *)
(***************************************************************************)
\* the table entries whose keyword occurs in the space-joined indicators
MatchedKeys(inds) ==
    {k \in 1..Len(TypeMapping) : Contains(Lower(JoinSpace(inds)), TypeMapping[k][1])}

\* C16: classify returns a non-empty list; it returns exactly
\* [Securities Fraud] when no keyword of the table occurs in the indicators,
\* the empty indicator list included, and classify(["ponzi scheme"]) is
\* [Ponzi Scheme].
C16_NonEmptyWithDefault ==
    classified # None =>
        /\ classified[1] # <<>>
        /\ MatchedKeys(indicators[1]) = {} => classified[1] = <<"Securities Fraud">>
        /\ indicators[1] = <<>> => classified[1] = <<"Securities Fraud">>
        /\ indicators[1] = <<<<"p","o","n","z","i"," ","s","c","h","e","m","e">>>> => classified[1] = <<"Ponzi Scheme">>

\* an indicator was given, no keyword occurs, and the default came back
C16_Witness ==
    /\ indicators = Some(<<<<"m","a","i","l"," ","f","r","a","u","d">>>>)
    /\ classified = Some(<<"Securities Fraud">>)

\* the position in the table of the first entry with this fraud type
FirstKey(ft) ==
    CHOOSE k \in 1..Len(TypeMapping) :
        TypeMapping[k][2] = ft /\ \A h \in 1..(k - 1) : TypeMapping[h][2] # ft

\* the matched values, each once, in declaration order
InTableOrder(types, inds) ==
    /\ {types[i] : i \in 1..Len(types)} = {TypeMapping[k][2] : k \in MatchedKeys(inds)}
    /\ \A i, j \in 1..Len(types) : i < j => FirstKey(types[i]) < FirstKey(types[j])

\* the orderings of a list
Reorderings(inds) ==
    {[i \in 1..Len(inds) |-> inds[p[i]]] : p \in Permutations(1..Len(inds))}

\* every keyword that occurs in the joined text occurs inside one indicator
WithinOneIndicator(inds) ==
    \A k \in MatchedKeys(inds) :
        \E i \in 1..Len(inds) : Contains(Lower(inds[i]), TypeMapping[k][1])

\* C17 as stated: when keywords are present classify returns the matched
\* values in table declaration order without duplicates, the first of them
\* being the value declared earliest, and the result is the same for every
\* order in which the indicators are given.
C17_TableOrderAnyIndicatorOrder ==
    classified # None =>
        /\ MatchedKeys(indicators[1]) # {} => InTableOrder(classified[1], indicators[1])
        /\ \A inds \in Reorderings(indicators[1]) : ClassifyFraudType(inds) = classified[1]

\* C17, amended: when keywords are present classify returns the matched
\* values in table declaration order without duplicates, the first of them
\* being the value declared earliest; the result is the same for every order
\* of the indicators in which each keyword that occurs lies inside a single
\* indicator.
C17_TableOrderWholeKeywords ==
    classified # None =>
        /\ MatchedKeys(indicators[1]) # {} => InTableOrder(classified[1], indicators[1])
        /\ WithinOneIndicator(indicators[1]) =>
              \A inds \in Reorderings(indicators[1]) :
                  WithinOneIndicator(inds) => ClassifyFraudType(inds) = classified[1]

\* two keywords given against the table order
C17_Witness ==
    /\ indicators = Some(<<<<"p","u","m","p","-","a","n","d","-","d","u","m","p">>, <<"P","o","n","z","i"," ","s","c","h","e","m","e">>>>)
    /\ classified = Some(<<"Ponzi Scheme", "Market Manipulation">>)

\* the values _classify_fraud_type can return
FraudTaxonomy == {TypeMapping[k][2] : k \in 1..Len(TypeMapping)}

\* C18: the fraud_type of every row of the persisted table, whichever script
\* and source produced it, is one of the values the classifier can return.
C18_TaxonomyClosed ==
    \A i \in 1..Len(ReadCsv(db)) : ReadCsv(db)[i].fraud_type \in FraudTaxonomy

(***************************************************************************)
(* Text-extraction claims                                                  *)
(***************************************************************************)
\* C11: a document whose text contains both "$50,000" and "$4 million" (and
\* no larger figure) gives a case with alleged_amount = 4,000,000.
C11_MagnitudeWordCounts ==
    (/\ ecase # None
     /\ Contains(pdf_text[1], <<"$","5","0",",","0","0","0">>)
     /\ Contains(pdf_text[1], <<"$","4"," ","m","i","l","l","i","o","n">>))
        => ecase[1].alleged_amount = Some(Dec(4, 6))

\* the values _parse_dollar_amount returns for the dollar figures matched in a text
ParsedValues(parsed_amounts) ==
    {parsed_amounts[i][1] : i \in {h \in 1..Len(parsed_amounts) : parsed_amounts[h] # None}}

ParsedAmounts(txt) ==
    ParsedValues(ParsedAmountsOf(ExtractPattern(txt, "dollar_amount", FALSE)))

\* alleged is the largest element of big, None when big is empty
LargestOf(big, alleged) ==
    /\ big = {} => alleged = None
    /\ big # {} => /\ alleged # None
                   /\ alleged[1] \in big
                   /\ \A v \in big : ~FloatGreater(v, alleged[1])

SameLines(ls, ks) ==
    Len(ls) = Len(ks) /\ {ls[i] : i \in 1..Len(ls)} = {ks[i] : i \in 1..Len(ks)}

\* C12: alleged_amount is the largest of the parsed amounts of the document
\* that exceed 10,000, None when there is none, and documents that hold the
\* same lines in another order get the same alleged_amount.
C12_LargestAboveThreshold ==
    ecase # None =>
        /\ LargestOf({v \in ParsedAmounts(pdf_text[1]) : FloatGreater(v, TenThousand)},
                     ecase[1].alleged_amount)
        /\ \A ls, ks \in Documents :
              (JoinLines(ls) = pdf_text[1] /\ SameLines(ls, ks))
                  => AllegedAmount(JoinLines(ks)) = ecase[1].alleged_amount

\* several amounts exceed the threshold, the largest is not the last, and
\* 10,000 itself is not counted
C12_Witness ==
    /\ ecase # None
    /\ pdf_text = Some(JoinLines(<<13, 17>>))
    /\ ecase[1].alleged_amount = Some(Dec(25, 4))

\* the group of the first match of the first rule of a key that matches
RECURSIVE FirstRuleFrom(_, _, _)
FirstRuleFrom(pats, k, txt) ==
    IF k > Len(pats) THEN None
    ELSE IF \E i \in 1..Len(txt) : MatchAt(pats[k], txt, i) # <<>>
         THEN Some(Strip(FindAll(pats[k], txt, 1)[1]))
         ELSE FirstRuleFrom(pats, k + 1, txt)

FirstRuleMatch(txt, pattern_key) == FirstRuleFrom(Patterns(pattern_key), 1, txt)

\* the complaint date extract_case makes of the first match
DateFrom(first) == IF first = None THEN None ELSE Some(NormalizeDate(first[1]))

ListOf(first) == IF first = None THEN <<>> ELSE <<first[1]>>

\* C19: for case number, complaint date and court the value used is the first
\* match of the first rule, in declaration order, that matches anywhere in
\* the text; no value when no rule matches.
C19_FirstMatchingRuleWins ==
    /\ (/\ matches # None
        /\ matches[1].first_only
        /\ matches[1].pattern_key \in {"case_number", "complaint_date", "court"})
           => matches[1].unique = ListOf(FirstRuleMatch(pdf_text[1], matches[1].pattern_key))
    /\ ecase # None =>
          /\ ecase[1].case_number = FirstRuleMatch(pdf_text[1], "case_number")
          /\ ecase[1].court = FirstRuleMatch(pdf_text[1], "court")
          /\ ecase[1].complaint_date = DateFrom(FirstRuleMatch(pdf_text[1], "complaint_date"))

\* the third rule matches earlier in the text than the first rule does
C19_Witness ==
    /\ pdf_text = Some(JoinLines(<<3, 1>>))
    /\ matches = Some([pattern_key |-> "case_number", first_only |-> TRUE,
                       unique |-> <<<<"2","4","-","c","v","-","0","1","5","0","1">>>>])

StripEach(found) == [i \in 1..Len(found) |-> Strip(found[i])]

\* the stripped matches of rule 1, then of rule 2, ...
RECURSIVE Accumulated(_, _, _)
Accumulated(pats, k, txt) ==
    IF k > Len(pats) THEN <<>>
    ELSE StripEach(FindAll(pats[k], txt, 1)) \o Accumulated(pats, k + 1, txt)

\* the positions of acc that hold an element for the first time
FirstSeen(acc) == {i \in 1..Len(acc) : \A h \in 1..(i - 1) : acc[h] # acc[i]}

\* uniq is acc without its repeats, in the order of first occurrence
IsDeduplicated(uniq, acc, firsts) ==
    /\ Len(uniq) = Cardinality(firsts)
    /\ \A i, j \in 1..Len(uniq) : i # j => uniq[i] # uniq[j]
    /\ \A j \in 1..Len(uniq) :
          uniq[j] = acc[CHOOSE i \in firsts : Cardinality({h \in firsts : h < i}) = j - 1]

DeduplicationOf(uniq, acc) == IsDeduplicated(uniq, acc, FirstSeen(acc))

\* C20: for entity lists and fraud-indicator lists the result is the matches
\* of all rules, rule by rule, with repeats removed: no element occurs
\* twice and the elements stand in the order of their first occurrence.
C20_AccumulateAndDeduplicate ==
    (/\ matches # None
     /\ ~matches[1].first_only
     /\ matches[1].pattern_key \in {"defendant_company", "defendant_individual",
                                    "fraud_indicators"})
        => DeduplicationOf(matches[1].unique,
                           Accumulated(Patterns(matches[1].pattern_key), 1, pdf_text[1]))

\* both company rules match the same name
C20_Witness ==
    /\ pdf_text = Some(JoinLines(<<18>>))
    /\ matches = Some([pattern_key |-> "defendant_company", first_only |-> FALSE,
                       unique |-> <<<<"A","c","m","e"," ","C","a","p","i","t","a","l"," ","L","L","C">>>>])

\* no rule of the list matches anywhere in the text
NoneMatches(pats, txt) ==
    \A k \in 1..Len(pats) : \A i \in 1..Len(txt) : MatchAt(pats[k], txt, i) = <<>>

NoRuleMatches(txt, pattern_key) == NoneMatches(Patterns(pattern_key), txt)

\* C21: for every text, the empty one included, extract_case returns an
\* ExtractedCase whose optional fields are None, and whose defendant list is
\* empty, wherever no rule of the field matched; none holds a placeholder.
C21_UnsetWhenNoMatch ==
    ecase # None =>
        /\ NoRuleMatches(pdf_text[1], "case_number") => ecase[1].case_number = None
        /\ NoRuleMatches(pdf_text[1], "complaint_date") => ecase[1].complaint_date = None
        /\ NoRuleMatches(pdf_text[1], "court") => ecase[1].court = None
        /\ NoRuleMatches(pdf_text[1], "dollar_amount") => ecase[1].alleged_amount = None
        /\ (/\ NoRuleMatches(pdf_text[1], "defendant_company")
            /\ NoRuleMatches(pdf_text[1], "defendant_individual"))
               => ecase[1].defendants = <<>>
        /\ ecase[1].relief_defendants = <<>>
        /\ ecase[1].source_url = None

\* the empty text: nothing matches and every optional field is unset
C21_Witness ==
    /\ pdf_text = Some(<<>>)
    /\ ecase # None
    /\ ecase[1].case_number = None
    /\ ecase[1].complaint_date = None
    /\ ecase[1].court = None
    /\ ecase[1].alleged_amount = None
    /\ ecase[1].defendants = <<>>

(***************************************************************************)
(* Orchestration claims                                                    *)
(***************************************************************************)
\* C22: every record that a source pipeline hands to the merger has a
\* case_date that is a string and a jurisdiction that is a string, the empty
\* one when unknown; neither is null.
C22_DateAndJurisdictionNeverNull ==
    mainPc = "combined" =>
        \A i \in 1..Len(all_cases) :
            /\ all_cases[i].jurisdiction # None
            /\ \E d \in 1..Len(AllDates) : AllDates[d] = all_cases[i].case_date

RECURSIVE Concat(_)
Concat(lists) == IF lists = <<>> THEN <<>> ELSE Head(lists) \o Concat(Tail(lists))

\* C23: a file whose extraction fails adds no record, what earlier files
\* added is kept, every later file is still gone through, and the function
\* returns its list: no failure of a single file leaves the loop.
C23_PartialFailure ==
    batch # None =>
        /\ batch[1].pc # "raised"
        /\ \A k \in 1..Len(batch[1].per_doc) :
              batch[1].docs[k].kind # "ok" => batch[1].per_doc[k] = <<>>
        /\ batch[1].cases = StartBatch(batch[1].fn, batch[1].docs).cases
                             \o Concat(batch[1].per_doc)
        /\ batch[1].pc = "returned" => Len(batch[1].per_doc) = Len(batch[1].docs)

\* C24: a rebuild starts from an empty dataset, whatever the published table
\* holds, and the published table changes only when a completed rebuild
\* replaces it.
C24_BuiltFreshAndReplacedAsAWhole ==
    [][/\ mainPc' = "loaded" => all_cases' = <<>>
       /\ db' # db => (mainPc = "deduplicated" /\ mainPc' = "done")]_vars

\* C25: whenever the table is being written, also when the run was
\* interrupted while writing, a reader finds in the file either the whole
\* table published before or the whole new table.
C25_ReaderSeesWholeTable ==
    writer # None => (db = writer[1].published \/ db = Some(writer[1].rows))

\* the table after main, then process_pdfs.main, ran one after the other
MainThenAdd(r) == AddToDatabase(MainTable(r, ReadCsv(r.start)), AddCases(r))

\* the table after process_pdfs.main, then main
AddThenMain(r) == MainTable(r, ReadCsv(AddToDatabase(r.start, AddCases(r))))

\* C26: when two updates of the table interleave their read and write
\* steps, the table they leave is the one some order of the two runs, one
\* after the other, leaves: no row of either run is lost.
C26_InterleavingIsSerializable ==
    (runs # None /\ runs[1].main.pc = "done" /\ runs[1].add.pc = "done")
        => (db = MainThenAdd(runs[1]) \/ db = AddThenMain(runs[1]))

\* the steps of main in the order of the code
MainSteps ==
    {<<"idle", "loaded">>, <<"done", "loaded">>, <<"loaded", "extracted">>,
     <<"extracted", "downloaded">>, <<"downloaded", "combined">>,
     <<"combined", "deduplicated">>, <<"deduplicated", "done">>}

\* C27: a rebuild exports its dataset once, after the existing rows, the PDF
\* records, the OFAC records and the known SEC cases were all merged and
\* deduplicated, and merges nothing into the dataset after the export.
C27_SealedOnceAfterAllSources ==
    [][/\ mainPc' # mainPc => <<mainPc, mainPc'>> \in MainSteps
       /\ mainPc' = mainPc => all_cases' = all_cases
       /\ (mainPc = "deduplicated" /\ mainPc' = "done")
             => (all_cases' = all_cases /\ db' = ToCsv(SortByDateDesc(all_cases')))
       /\ (mainPc \notin {"idle", "done"} /\ mainPc' # "done") => db' = db]_vars

\* a finished rebuild: the table holds the merged rows of several sources
C27_Witness ==
    /\ mainPc = "done"
    /\ Len(all_cases) >= 3
    /\ db = ToCsv(SortByDateDesc(all_cases))
    /\ \E i, j \in 1..Len(all_cases) : all_cases[i].source # all_cases[j].source

\* the number of rows of a table equal to r
CountOf(r, rows) == Cardinality({i \in 1..Len(rows) : rows[i] = r})

\* every row of the table before is in the table after, as often at least
RowsKept(before, after) ==
    \A i \in 1..Len(before) : CountOf(before[i], before) <= CountOf(before[i], after)

\* every incoming record carries a name the table has already
NoneNew(df, incoming) ==
    \A i \in 1..Len(incoming) : Lower(incoming[i].company_name) \in ExistingNames(df)

\* an update that turned file into after only added rows
OnlyAdds(file, incoming, after) ==
    /\ RowsKept(ReadCsv(file), ReadCsv(after))
    /\ NoneNew(ReadCsv(file), incoming) => after = file

\* the cleaned records of data/sec_enforcement.json, whatever the table holds
IncomingCompanies(companies) == EnforcementRecords(companies, 1, {}, <<>>)

\* C29: an incremental update (add_to_database, add_known_cases.main,
\* scripts/extract_from_pdfs.main, import_sec_enforcement.main) only adds
\* rows: every row of the table before the update is in the table after it
\* with all its fields unchanged, and the file is left as it is when no
\* incoming record is new
C29_UpdateOnlyAddsRows ==
    /\ \A listing \in Listings : \A clock \in ClockReadings(Len(listing)) :
          OnlyAdds(db, ProcessAllPdfs(listing, clock),
                   AddToDatabase(db, ProcessAllPdfs(listing, clock)))
    /\ OnlyAdds(db, KnownRecords(KnownSecCases), AddKnownCases(db))
    /\ \A listing \in SortedListings : \A clock \in ClockReadings(Len(listing)) :
          OnlyAdds(db, PdfRecordsWithUrl(listing, clock, 1),
                   ExtractFromPdfsScript(db, listing, clock))
    /\ \A companies \in SeqsUpTo(CompanyPool, MaxCompanies) :
          OnlyAdds(db, IncomingCompanies(companies),
                   ImportSecEnforcement(db, companies))

\* the rows of a table are in descending order of case_date
IsSortedByDate(rows) ==
    \A i, j \in 1..Len(rows) :
        i < j => DateRank(rows[i].case_date) >= DateRank(rows[j].case_date)

\* the sources named by the rows of a table
SourcesOf(rows) == {rows[i].source : i \in 1..Len(rows)}

\* a table that updates of two sources have built and that is not in date
\* order, to which add_known_cases has nothing to add
C29_Witness ==
    /\ db # None
    /\ Len(ReadCsv(db)) >= 3
    /\ Cardinality(SourcesOf(ReadCsv(db))) >= 2
    /\ ~IsSortedByDate(ReadCsv(db))
    /\ NoneNew(ReadCsv(db), KnownRecords(KnownSecCases))
    /\ AddKnownCases(db) = db

\* the normalized keys of a list of records
NormalizedKeys(cs) == {NameLower(cs[i].company_name) : i \in 1..Len(cs)}

\* the incoming records whose normalized key was already present
Discarded(cs) ==
    {i \in 1..Len(cs) :
        \E j \in 1..(i - 1) :
            NameLower(cs[j].company_name) = NameLower(cs[i].company_name)}

\* C28: the number of removed records that main reports after the merge is
\* the number of incoming records discarded because their normalized key was
\* already present, which is the number of input records minus the number of
\* distinct normalized keys
C28_RemovedCountIsObservable ==
    [][(mainPc = "combined" /\ mainPc' = "deduplicated")
          => /\ removed' = Some(Cardinality(Discarded(all_cases)))
             /\ removed' = Some(Len(all_cases)
                                 - Cardinality(NormalizedKeys(all_cases)))]_vars

\* main has reported that it removed at least two duplicates
C28_Witness ==
    /\ mainPc = "deduplicated"
    /\ removed # None
    /\ removed[1] >= 2

\* the outcomes C30 names, and a successful response
NamedOutcomes ==
    {"ok", "no_content", "timeout", "rate_limited", "rate_limited_date",
     "client_error", "server_error", "connection_error"}

\* no request of the call came to an outcome outside the named ones
OnlyNamedOutcomes(a) == \A i \in 1..Len(a.seen) : a.seen[i] \in NamedOutcomes

\* the call ended with a parsed response or with None
ReturnedResponseOrNone(a) ==
    a.pc = "returned" /\ a.result \in {None, Some("json"), Some("{}")}

\* a 4xx response other than 429 is the last response of the call and its
\* only one, and the call has ended with None
ClientErrorEndsCall(a) ==
    \A i \in 1..Len(a.seen) :
        a.seen[i] = "client_error"
            => i = Len(a.seen) /\ a.pc = "returned" /\ a.result = None

\* C30: _make_request issues at most Config.MAX_RETRIES requests per call and
\* always ends with a parsed response or with None, whatever the sequence of
\* timeouts, 429 responses, 5xx responses and connection errors; a 4xx
\* response other than 429 ends the call with None, without a retry
C30_BoundedRetriesAndNoneOnFailure ==
    (api # None /\ OnlyNamedOutcomes(api[1]))
        => /\ api[1].requests <= MAX_RETRIES
           /\ api[1].pc = "request" => ENABLED NextApi
           /\ api[1].pc # "request" => ReturnedResponseOrNone(api[1])
           /\ ClientErrorEndsCall(api[1])

\* C4: curated known cases are merged before text-extracted and feed-parsed
\* records, so every curated known case is in the output of a completed
\* rebuild even when a lower-trust record shares its normalized name.
C4_CuratedRecordSurvives ==
    mainPc = "done" =>
        \A k \in 1..Len(SecKnownCases) :
            \E i \in 1..Len(all_cases) : all_cases[i] = SecKnownCases[k]

\* C5: no two rows of the persisted table have the same trimmed, lower-cased
\* company_name, whatever updates ran.
C5_PersistedNamesUnique ==
    \A i, j \in 1..Len(ReadCsv(db)) :
        i # j => TrimFold(ReadCsv(db)[i].company_name)
                   # TrimFold(ReadCsv(db)[j].company_name)

\* C6: two independent rebuilds from the same documents, feed entries, curated
\* cases and existing table write identical tables.
C6_RebuildDeterministic ==
    (tables # None /\ tables[1][1] # None /\ tables[1][2] # None)
        => tables[1][1] = tables[1][2]

====
